---- MODULE Spec2Model ----
(***************************************************************************)
(* A state-machine model of laplace/baselaplace.py: one Laplace            *)
(* approximation object (FullLaplace, KronLaplace, DiagLaplace,            *)
(* LowRankLaplace or FunctionalLaplace) built around a predictor, and the  *)
(* calls a user can make on it.  Tensors are finite sequences of numbers;  *)
(* real numbers are exact rationals, so "equal up to floating-point        *)
(* tolerance" is modelled as exact equality.                               *)
(***************************************************************************)
EXTENDS Integers, Sequences, FiniteSets, TLC

VARIABLES
    phase,            \* "none": no object; "init": constructed; "fitted": a fit or load completed
    cls,              \* self.__class__.__name__
    model,            \* the predictor: its parameter tensors and its output width
    likelihood,       \* self.likelihood
    reward_modeling,  \* self.reward_modeling
    prior_precision,  \* self._prior_precision, a 1-d tensor
    prior_mean,       \* self._prior_mean
    sigma_noise,      \* self._sigma_noise, a 0-d tensor
    temperature,      \* self.temperature
    enable_backprop,  \* self.enable_backprop
    backend_cls,      \* self._backend_cls
    backend_kwargs,   \* self._backend_kwargs
    H,                \* self.H, the curvature accumulator
    H_facs,           \* KronLaplace.H_facs, the raw summed Kronecker factors
    loss,             \* self.loss
    n_data,           \* self.n_data
    n_outputs,        \* self.n_outputs
    mean,             \* self.mean
    posterior_scale,  \* self._posterior_scale: NoScale, or the scale computed last
    gp,               \* the fields only FunctionalLaplace has
    saved,            \* a dictionary state_dict() returned and the caller kept
    last              \* the call made last: its name, its arguments, its outcome

vars == <<phase, cls, model, likelihood, reward_modeling, prior_precision,
          prior_mean, sigma_noise, temperature, enable_backprop, backend_cls,
          backend_kwargs, H, H_facs, loss, n_data, n_outputs, mean,
          posterior_scale, gp, saved, last>>

(***************************************************************************)
(* Bounds of the model.                                                    *)
(***************************************************************************)
MaxBatches == 2      \* batches in one data stream
MaxData == 3         \* cap on n_data reached by accumulating fits

(***************************************************************************)
(* Values.                                                                 *)
(***************************************************************************)
\* Python's None for integer-valued fields (n_outputs, M, batch_size).
None == -1

OK == "ok"

RECURSIVE GCD(_, _)
GCD(a, b) == IF b = 0 THEN a ELSE GCD(b, a % b)

Abs(x) == IF x < 0 THEN -x ELSE x

\* An exact rational n/d in lowest terms, d > 0.
Rat(n, d) ==
    LET g == GCD(Abs(n), Abs(d))
        s == IF d < 0 THEN -1 ELSE 1
    IN  [n |-> (s * n) \div g, d |-> (s * d) \div g]

RatInt(k) == [n |-> k, d |-> 1]
RatAdd(x, y) == Rat(x.n * y.d + y.n * x.d, x.d * y.d)
RatMul(x, y) == Rat(x.n * y.n, x.d * y.d)

RECURSIVE SumSeq(_)
SumSeq(s) == IF s = <<>> THEN 0 ELSE Head(s) + SumSeq(Tail(s))

RECURSIVE Flatten(_)
Flatten(ss) == IF ss = <<>> THEN <<>> ELSE Head(ss) \o Flatten(Tail(ss))

\* torch.ones(n) * v
Repeat(v, n) == [i \in 1..n |-> v]

\* A 0-d tensor and a 1-d tensor.
T0(x) == [ndim |-> 0, v |-> <<x>>]
T1(s) == [ndim |-> 1, v |-> s]

(***************************************************************************)
(* The predictor (torch.nn.Module): an ordered sequence of parameter       *)
(* tensors, each trainable or frozen, and the width of its output.         *)
(***************************************************************************)
Layer(numel, ndim, grad, base) ==
    [ndim |-> ndim, requires_grad |-> grad, data |-> [i \in 1..numel |-> base + i]]

\* a weight matrix and a bias, all trainable: n_params = 3, n_layers = 2
TwoLayer ==
    [layers |-> <<Layer(2, 2, TRUE, 10), Layer(1, 1, TRUE, 20)>>, out |-> 2,
     output_size |-> None]

\* one-element weight and bias: n_layers = n_params = 2
OneByOne ==
    [layers |-> <<Layer(1, 2, TRUE, 10), Layer(1, 1, TRUE, 20)>>, out |-> 1,
     output_size |-> None]

\* frozen weight, trainable bias: n_layers = n_params = 1
FrozenWeight ==
    [layers |-> <<Layer(2, 2, FALSE, 10), Layer(1, 1, TRUE, 20)>>, out |-> 1,
     output_size |-> None]

Predictors == {TwoLayer, OneByOne, FrozenWeight}

\* torch.nn.utils.parameters_to_vector
parameters_to_vector(ps) == Flatten([i \in DOMAIN ps |-> ps[i].data])

\* self.params: the parameters that require grad
params_of(m) == SelectSeq(m.layers, LAMBDA p : p.requires_grad)
is_subset_params_of(m) == \E i \in DOMAIN m.layers : ~m.layers[i].requires_grad
n_params_of(m) ==
    LET ps == params_of(m) IN SumSeq([i \in DOMAIN ps |-> Len(ps[i].data)])
n_layers_of(m) == Len(params_of(m))

params == params_of(model)
is_subset_params == is_subset_params_of(model)
n_params == n_params_of(model)
n_layers == n_layers_of(model)

(***************************************************************************)
(* Python values handed to the setters: a number, a tensor of 0, 1 or 2    *)
(* dimensions, or a value of another type.                                 *)
(***************************************************************************)
Scalar(k) == [kind |-> "scalar", ndim |-> 0, v |-> <<k>>]
Tensor(nd, s) == [kind |-> "tensor", ndim |-> nd, v |-> s]
Other == [kind |-> "other", ndim |-> 0, v |-> <<>>]

MaxPriorLen == 4     \* longest 1-d prior precision tried

PriorInputs ==
    {Scalar(1), Tensor(0, <<2>>), Tensor(2, <<2, 2>>), Other}
        \cup {Tensor(1, [i \in 1..n |-> i + 1]) : n \in 1..MaxPriorLen}

SigmaInputs ==
    {Scalar(1), Scalar(2), Tensor(0, <<2>>), Tensor(1, <<2>>), Tensor(1, <<1, 2>>),
     Tensor(2, <<2, 2>>), Other}

Likelihoods == {"classification", "regression", "reward_modeling"}

Classes == {"FullLaplace", "KronLaplace", "DiagLaplace", "LowRankLaplace",
            "FunctionalLaplace"}
Parametric == Classes \ {"FunctionalLaplace"}

(***************************************************************************)
(* Property setters, as functions from the argument (and the value held    *)
(* before) to the outcome and the value held after.                        *)
(***************************************************************************)
ErrPriorLen == "Length of prior precision does not align with architecture."
ErrPriorDim == "Prior precision needs to be at most one-dimensional tensor."
ErrPriorType == "Prior precision either scalar or torch.Tensor up to 1-dim."
ErrPriorKron == "Prior precision for Kron either scalar or per-layer."
ErrIsotropic == "Only isotropic priors supported in FunctionalLaplace"

\* BaseLaplace.prior_precision.setter
base_prior_precision_setter(x, cur, m) ==
    IF x.kind = "scalar" THEN [err |-> OK, val |-> <<x.v[1]>>]
    ELSE IF x.kind = "tensor" THEN
        IF x.ndim = 0 THEN [err |-> OK, val |-> x.v]
        ELSE IF x.ndim = 1 THEN
            IF Len(x.v) \notin {1, n_layers_of(m), n_params_of(m)}
            THEN [err |-> ErrPriorLen, val |-> cur]
            ELSE [err |-> OK, val |-> x.v]
        ELSE [err |-> ErrPriorDim, val |-> cur]
    ELSE [err |-> ErrPriorType, val |-> cur]

\* Variant of the Kron setter without the structure check.
kron_prior_precision_setter_unchecked(x, cur, m) ==
    base_prior_precision_setter(x, cur, m)

\* KronLaplace.prior_precision.setter: the base setter stores the value, then
\* the structure is checked.
kron_prior_precision_setter(x, cur, m) ==
    LET r == base_prior_precision_setter(x, cur, m) IN
    IF r.err # OK THEN r
    ELSE IF Len(r.val) \notin {1, n_layers_of(m)}
         THEN [err |-> ErrPriorKron, val |-> r.val]
         ELSE r

\* The setter the class dispatches to (FunctionalLaplace repeats the base one).
prior_precision_setter(c, x, cur, m) ==
    IF c = "KronLaplace" THEN kron_prior_precision_setter(x, cur, m)
    ELSE base_prior_precision_setter(x, cur, m)

ErrSigmaHomo == "Only homoscedastic output noise supported."
ErrSigmaDim == "Sigma noise needs to be scalar or 1-dimensional."
ErrSigmaType == "Invalid type: sigma noise needs to be torch.Tensor or scalar."

\* BaseLaplace.sigma_noise.setter
sigma_noise_setter(x, cur) ==
    IF x.kind = "scalar" THEN [err |-> OK, val |-> x.v[1]]
    ELSE IF x.kind = "tensor" THEN
        IF x.ndim = 0 THEN [err |-> OK, val |-> x.v[1]]
        ELSE IF x.ndim = 1 THEN
            IF Len(x.v) > 1 THEN [err |-> ErrSigmaHomo, val |-> cur]
            ELSE [err |-> OK, val |-> x.v[1]]
        ELSE [err |-> ErrSigmaDim, val |-> cur]
    ELSE [err |-> ErrSigmaType, val |-> cur]

\* FunctionalLaplace._check_prior_precision
check_prior_precision(x) ==
    IF x.kind = "tensor" /\ ~(x.ndim = 0 \/ (x.ndim = 1 /\ Len(x.v) = 1))
    THEN ErrIsotropic ELSE OK

(***************************************************************************)
(* Data streams (torch DataLoader): the batches it yields, the declared    *)
(* size N = len(train_loader.dataset), its batch_size, and whether the     *)
(* batches are mappings (Huggingface style) instead of (X, y) pairs.       *)
(* A batch is named by a number; the backend's answer depends on it.       *)
(***************************************************************************)
BatchIds == {1, 2}

RECURSIVE SeqsUpTo(_, _)
SeqsUpTo(S, n) ==
    IF n = 0 THEN {<<>>}
    ELSE LET shorter == SeqsUpTo(S, n - 1)
         IN  shorter \cup {Append(q, e) : q \in {r \in shorter : Len(r) = n - 1}, e \in S}

Sizes == {1, 2}

Streams ==
    {[batches |-> bs, N |-> n, batch_size |-> IF Len(bs) = 1 THEN 2 ELSE 1,
      mapping |-> FALSE] :
        bs \in SeqsUpTo(BatchIds, MaxBatches) \ {<<>>}, n \in Sizes}
    \cup {[batches |-> <<1>>, N |-> 1, batch_size |-> 2, mapping |-> TRUE]}

\* The stream that yields the batches of s1, then those of s2.
Concat(s1, s2) ==
    [batches |-> s1.batches \o s2.batches, N |-> s1.N + s2.N,
     batch_size |-> s1.batch_size, mapping |-> s1.mapping]

(***************************************************************************)
(* The curvature backend and the Kron container of laplace.utils.          *)
(***************************************************************************)
\* loss_batch of backend.full / backend.diag / backend.kron
batch_loss(b) == b

\* H_batch of backend.full: an n x n matrix
batch_full(b, n) == [mat |-> [i \in 1..n |-> [j \in 1..n |-> b * b + i * j]]]

\* H_batch of backend.diag: a vector of length n
batch_diag(b, n) == [d |-> [i \in 1..n |-> b * b + i]]

\* H_batch of backend.kron(X, y, N): per parameter group one factor (bias) or
\* two (weight); the second factor is weighted by the declared size N.
batch_kron(b, ps, N) ==
    [kfacs |-> [k \in DOMAIN ps |->
        IF ps[k].ndim = 1 THEN <<RatInt(b + k)>>
        ELSE <<RatInt(b + k), Rat(b, N)>>]]

\* backend.eig_lowrank(train_loader): eigenpairs of the whole stream, and its loss
eig_lowrank(s) ==
    [H |-> [kind |-> "eig", of |-> s.batches],
     loss |-> SumSeq([i \in DOMAIN s.batches |-> batch_loss(s.batches[i])])]

\* Kron.init_from_model: zero factors shaped after the parameters
kron_init_from_model(ps) ==
    [kind |-> "Kron",
     kfacs |-> [k \in DOMAIN ps |->
        IF ps[k].ndim = 1 THEN <<RatInt(0)>> ELSE <<RatInt(0), RatInt(0)>>]]

\* Kron.__add__: factor-wise sum
kron_add(x, y) ==
    [kind |-> "Kron",
     kfacs |-> [k \in DOMAIN x.kfacs |->
        [f \in DOMAIN x.kfacs[k] |-> RatAdd(x.kfacs[k][f], y.kfacs[k][f])]]]

\* Kron.decompose: the eigendecomposition of every factor
kron_decompose(x) == [kind |-> "KronDecomposed", kfacs |-> x.kfacs]

NoneH == [kind |-> "None"]

\* self._posterior_scale = None
NoScale == [kind |-> "None"]

(***************************************************************************)
(* Curvature structures.                                                   *)
(***************************************************************************)
\* FullLaplace._init_H, KronLaplace._init_H, DiagLaplace._init_H,
\* LowRankLaplace._init_H
init_H(c, m) ==
    CASE c = "FullLaplace" ->
            [kind |-> "dense",
             mat |-> [i \in 1..n_params_of(m) |-> [j \in 1..n_params_of(m) |-> 0]]]
      [] c = "DiagLaplace" -> [kind |-> "diag", d |-> Repeat(0, n_params_of(m))]
      [] c = "KronLaplace" -> kron_init_from_model(params_of(m))
      [] OTHER -> NoneH

\* self._curv_closure(X, y, N) of the variant: (loss_batch, H_batch)
curv_closure(c, m, b, N) ==
    CASE c = "FullLaplace" ->
            [loss |-> batch_loss(b), H |-> batch_full(b, n_params_of(m))]
      [] c = "DiagLaplace" ->
            [loss |-> batch_loss(b), H |-> batch_diag(b, n_params_of(m))]
      [] OTHER -> [loss |-> batch_loss(b), H |-> batch_kron(b, params_of(m), N)]

\* self.H += H_batch
add_H(h, hb) ==
    CASE h.kind = "dense" ->
            [kind |-> "dense",
             mat |-> [i \in DOMAIN h.mat |->
                        [j \in DOMAIN h.mat |-> h.mat[i][j] + hb.mat[i][j]]]]
      [] h.kind = "diag" ->
            [kind |-> "diag", d |-> [i \in DOMAIN h.d |-> h.d[i] + hb.d[i]]]
      [] OTHER -> kron_add(h, hb)

\* The loop of ParametricLaplace.fit over the batches of the stream.
RECURSIVE accumulate(_, _, _, _, _)
accumulate(c, m, acc, bs, N) ==
    IF bs = <<>> THEN acc
    ELSE LET r == curv_closure(c, m, Head(bs), N)
         IN  accumulate(c, m,
                        [H |-> add_H(acc.H, r.H), loss |-> acc.loss + r.loss],
                        Tail(bs), N)

ErrDiagEF == "Currently DiagEF is not supported under CurvlinopsEF backend"
ErrStopIteration == "StopIteration"

\* Variant of the fit that starts from empty accumulators whatever override is.
parametric_fit_resetting(c, m, be, st, s, override) ==
    IF s.mapping /\ c = "DiagLaplace" /\ be = "CurvlinopsEF"
    THEN [err |-> ErrDiagEF, H |-> init_H(c, m), loss |-> 0, n_data |-> 0]
    ELSE LET a == accumulate(c, m, [H |-> init_H(c, m), loss |-> 0], s.batches, s.N)
         IN  [err |-> OK, H |-> a.H, loss |-> a.loss, n_data |-> s.N]

\* Variant of the fit whose override=True keeps the loss accumulated so far.
parametric_fit_keeping_loss(c, m, be, st, s, override) ==
    LET st0 == IF override
               THEN [H |-> init_H(c, m), loss |-> st.loss, n_data |-> 0]
               ELSE st
    IN  IF s.mapping /\ c = "DiagLaplace" /\ be = "CurvlinopsEF"
        THEN [err |-> ErrDiagEF, H |-> st0.H, loss |-> st0.loss, n_data |-> st0.n_data]
        ELSE LET a == accumulate(c, m, [H |-> st0.H, loss |-> st0.loss], s.batches, s.N)
             IN  [err |-> OK, H |-> a.H, loss |-> a.loss, n_data |-> st0.n_data + s.N]

\* ParametricLaplace.fit on the accumulators st = [H, loss, n_data].  A
\* loader that yields no batch fails at next(iter(train_loader)).
parametric_fit(c, m, be, st, s, override) ==
    LET st0 == IF override
               THEN [H |-> init_H(c, m), loss |-> 0, n_data |-> 0]
               ELSE st
    IN  IF s.batches = <<>>
        THEN [err |-> ErrStopIteration, H |-> st0.H, loss |-> st0.loss,
              n_data |-> st0.n_data]
        ELSE IF s.mapping /\ c = "DiagLaplace" /\ be = "CurvlinopsEF"
        THEN [err |-> ErrDiagEF, H |-> st0.H, loss |-> st0.loss, n_data |-> st0.n_data]
        ELSE LET a == accumulate(c, m, [H |-> st0.H, loss |-> st0.loss], s.batches, s.N)
             IN  [err |-> OK, H |-> a.H, loss |-> a.loss, n_data |-> st0.n_data + s.N]

\* Variant of the rescaling that multiplies every factor of every group.
rescale_factors_all(kron, factor) ==
    [kind |-> kron.kind,
     kfacs |-> [k \in DOMAIN kron.kfacs |->
        [i \in DOMAIN kron.kfacs[k] |-> RatMul(kron.kfacs[k][i], factor)]]]

\* KronLaplace._rescale_factors
rescale_factors(kron, factor) ==
    [kind |-> kron.kind,
     kfacs |-> [k \in DOMAIN kron.kfacs |->
        IF Len(kron.kfacs[k]) = 2
        THEN <<kron.kfacs[k][1], RatMul(kron.kfacs[k][2], factor)>>
        ELSE kron.kfacs[k]]]

\* KronLaplace.fit on st = [H, H_facs, loss, n_data].
kron_fit(m, be, st, s, override) ==
    LET facs0 == IF override THEN NoneH ELSE st.H_facs
        updating == facs0 # NoneH
        n_data_old == st.n_data
        n_data_new == s.N
        H1 == IF updating THEN init_H("KronLaplace", m) ELSE st.H
        facs1 == IF updating
                 THEN rescale_factors(facs0, Rat(n_data_old, n_data_old + n_data_new))
                 ELSE facs0
        r == parametric_fit("KronLaplace", m, be,
                            [H |-> H1, loss |-> st.loss, n_data |-> st.n_data],
                            s, override)
        facs2 == IF ~updating THEN r.H
                 ELSE kron_add(facs1,
                               rescale_factors(r.H,
                                   Rat(n_data_new, n_data_new + n_data_old)))
    IN  IF r.err # OK
        THEN [err |-> r.err, H |-> r.H, H_facs |-> facs1,
              loss |-> r.loss, n_data |-> r.n_data]
        ELSE [err |-> OK,
              H |-> kron_decompose(facs2), H_facs |-> facs2,
              loss |-> r.loss, n_data |-> r.n_data]

ErrNoUpdate == "LowRank LA does not support updating."

(***************************************************************************)
(* Construction.                                                           *)
(***************************************************************************)
ErrLikelihood == "Invalid likelihood type"
ErrSigmaRegr == "Sigma noise != 1 only available for regression."
ErrAmbiguous == "Boolean value of Tensor with more than one value is ambiguous"
ErrBackpack == "If some grad are switched off, the BackPACK backend is not supported."
ErrNoName == "'dict' object has no attribute '__name__'"
ErrAssert == "AssertionError"

LikelihoodInputs == Likelihoods \cup {"poisson"}

\* the backend argument of the parametric constructors (None: the default)
BackendInputs == {"None", "BackPackGGN", "CurvlinopsEF"}

\* the default backend of the class
default_backend(c) == IF c = "LowRankLaplace" THEN "AsdfghjklHessian" ELSE "None"

\* `sigma_noise != 1` as the condition of an if: "True", "False", or "error"
\* (the truth value of a tensor with several elements).
sigma_is_not_one(x) ==
    IF x.kind = "other" THEN "True"
    ELSE IF Len(x.v) > 1 THEN "error"
    ELSE IF x.v[1] # 1 THEN "True" ELSE "False"

\* 'backpack' in backend.__name__.lower(), for the values a caller passes as
\* backend: a class name, or a dict of keyword arguments
backend_is_backpack(be) ==
    IF be = "kwargs" THEN "error"
    ELSE IF be = "BackPackGGN" THEN "True" ELSE "False"

\* BaseLaplace.__init__ with the arguments in its own parameter order; the
\* outcome and the fields it sets.
base_init(c, m, lik, sig, pp, enable_bp, be, kw) ==
    LET r_pp == prior_precision_setter(c, pp, <<>>, m)
        r_sig == sigma_noise_setter(sig, 1)
        err ==
            IF lik \notin Likelihoods THEN ErrLikelihood
            ELSE IF r_pp.err # OK THEN r_pp.err
            ELSE IF sigma_is_not_one(sig) = "error" THEN ErrAmbiguous
            ELSE IF sigma_is_not_one(sig) = "True" /\ lik # "regression" THEN ErrSigmaRegr
            ELSE IF r_sig.err # OK THEN r_sig.err
            ELSE IF be # "None" /\ is_subset_params_of(m)
                    /\ backend_is_backpack(be) = "error" THEN ErrNoName
            ELSE IF be # "None" /\ is_subset_params_of(m)
                    /\ backend_is_backpack(be) = "True" THEN ErrBackpack
            ELSE OK
    IN  [err |-> err,
         prior_precision |-> r_pp.val,
         prior_mean |-> T0(0),
         reward_modeling |-> (lik = "reward_modeling"),
         likelihood |-> IF lik = "reward_modeling" THEN "classification" ELSE lik,
         sigma_noise |-> r_sig.val,
         temperature |-> 1,
         enable_backprop |-> enable_bp,
         backend_cls |-> IF be = "None" THEN "CurvlinopsGGN" ELSE be,
         backend_kwargs |-> IF kw = "None" THEN "empty" ELSE kw]

NoGP == [kind |-> "none"]
NoSaved == [kind |-> "none"]
Unset == [state |-> "None"]

NoModel == [layers |-> <<>>, out |-> None, output_size |-> None]

Init ==
    /\ phase = "none"
    /\ cls = "none"
    /\ model = NoModel
    /\ likelihood = "none"
    /\ reward_modeling = FALSE
    /\ prior_precision = <<>>
    /\ prior_mean = T0(0)
    /\ sigma_noise = 1
    /\ temperature = 1
    /\ enable_backprop = "False"
    /\ backend_cls = "none"
    /\ backend_kwargs = "none"
    /\ H = NoneH
    /\ H_facs = NoneH
    /\ loss = 0
    /\ n_data = 0
    /\ n_outputs = None
    /\ mean = T0(0)
    /\ posterior_scale = NoScale
    /\ gp = NoGP
    /\ saved = NoSaved
    /\ last = [op |-> "start", err |-> OK]

\* FullLaplace(...), KronLaplace(...), DiagLaplace(...), LowRankLaplace(...)
Construct(Cs, Ls, Ss, Ps, Bs) ==
    /\ UNCHANGED saved
    /\ \E c \in Cs, m \in Predictors, lik \in Ls, sig \in Ss, pp \in Ps,
       be \in Bs :
        LET b == IF be = "None" THEN default_backend(c) ELSE be
            r == base_init(c, m, lik, sig, pp, "False", b, "None")
        IN  /\ last.op = "start"
            /\ last' = [op |-> "init", err |-> r.err, cls |-> c, model |-> m,
                        likelihood |-> lik, sigma_noise |-> sig, prior_precision |-> pp]
            /\ IF r.err # OK
               THEN UNCHANGED <<phase, cls, model, likelihood, reward_modeling,
                                prior_precision, prior_mean, sigma_noise, temperature,
                                enable_backprop, backend_cls, backend_kwargs, H, H_facs,
                                loss, n_data, n_outputs, mean, posterior_scale, gp>>
               ELSE /\ phase' = "init"
                    /\ cls' = c
                    /\ model' = m
                    /\ likelihood' = r.likelihood
                    /\ reward_modeling' = r.reward_modeling
                    /\ prior_precision' = r.prior_precision
                    /\ prior_mean' = r.prior_mean
                    /\ sigma_noise' = r.sigma_noise
                    /\ temperature' = r.temperature
                    /\ enable_backprop' = r.enable_backprop
                    /\ backend_cls' = r.backend_cls
                    /\ backend_kwargs' = r.backend_kwargs
                    /\ H' = init_H(c, m)
                    /\ H_facs' = NoneH
                    /\ loss' = 0
                    /\ n_data' = 0
                    /\ n_outputs' = None
                    /\ mean' = r.prior_mean
                    /\ posterior_scale' = NoScale
                    /\ gp' = NoGP

\* FunctionalLaplace(model, likelihood, M, sigma_noise, prior_precision, ...,
\* backend, backend_kwargs, enable_backprop, diagonal_kernel, seed)
ConstructGP(Ls, Ss, Ps, Bs, Ks, Ms) ==
    /\ UNCHANGED saved
    /\ \E m \in Predictors, lik \in Ls, sig \in Ss, pp \in Ps, be \in Bs, kw \in Ks,
       M \in Ms, dk \in {FALSE} :
        LET \* super().__init__(model, likelihood, sigma_noise, prior_precision,
            \*                  prior_mean, temperature, backend, backend_kwargs)
            r == base_init("FunctionalLaplace", m, lik, sig, pp, be, kw, "None")
            err == IF be \notin {"BackPackGGN", "AsdlGGN"} THEN ErrAssert
                   ELSE IF check_prior_precision(pp) # OK THEN check_prior_precision(pp)
                   ELSE r.err
        IN  /\ last.op = "start"
            /\ last' = [op |-> "init", err |-> err, cls |-> "FunctionalLaplace",
                        model |-> m, likelihood |-> lik, sigma_noise |-> sig,
                        prior_precision |-> pp, backend |-> be, backend_kwargs |-> kw]
            /\ IF err # OK
               THEN UNCHANGED <<phase, cls, model, likelihood, reward_modeling,
                                prior_precision, prior_mean, sigma_noise, temperature,
                                enable_backprop, backend_cls, backend_kwargs, H, H_facs,
                                loss, n_data, n_outputs, mean, posterior_scale, gp>>
               ELSE /\ phase' = "init"
                    /\ cls' = "FunctionalLaplace"
                    /\ model' = m
                    /\ likelihood' = r.likelihood
                    /\ reward_modeling' = r.reward_modeling
                    /\ prior_precision' = r.prior_precision
                    /\ prior_mean' = r.prior_mean
                    /\ sigma_noise' = r.sigma_noise
                    /\ temperature' = r.temperature
                    /\ enable_backprop' = "False"
                    /\ backend_cls' = r.backend_cls
                    /\ backend_kwargs' = r.backend_kwargs
                    /\ loss' = 0
                    /\ n_data' = 0
                    /\ n_outputs' = None
                    /\ gp' = [kind |-> "gp", M |-> M, diagonal_kernel |-> dk,
                              K_MM |-> Unset, Sigma_inv |-> Unset, train_loader |-> Unset,
                              batch_size |-> None, prior_factor_sod |-> Unset,
                              mu |-> Unset, L |-> Unset,
                              map_estimate |-> parameters_to_vector(m.layers),
                              fitted |-> FALSE, recompute_Sigma |-> TRUE]
                    /\ UNCHANGED <<H, H_facs, mean, posterior_scale>>

(***************************************************************************)
(* fit                                                                     *)
(***************************************************************************)
constructed == phase # "none"

\* self.mean = parameters_to_vector(self.params) in ParametricLaplace.fit
fit_mean(m) == T1(parameters_to_vector(params_of(m)))

\* What a fit does to a dictionary sv that state_dict() returned earlier.  The
\* dictionary holds self.H itself (the kfacs list of self.H_facs for Kron), not
\* a copy.  override=True binds new objects to self.H and self.H_facs;
\* override=False adds to self.H in place (self.H += H_batch), and for Kron
\* rescales the factors of H_facs in place before a new Kron is bound.
fit_saved(sv, c, override, h_after, n_data_old, n_data_new) ==
    IF sv = NoSaved THEN sv
    ELSE IF ~sv.aliased THEN sv
    ELSE IF override THEN [sv EXCEPT !.aliased = FALSE]
    ELSE IF c = "KronLaplace"
    THEN [sv EXCEPT !.dict.H =
                [kind |-> "kfacs",
                 kfacs |-> rescale_factors(sv.dict.H,
                               Rat(n_data_old, n_data_old + n_data_new)).kfacs],
             !.aliased = FALSE]
    ELSE [sv EXCEPT !.dict.H = h_after]

\* FullLaplace.fit, KronLaplace.fit, DiagLaplace.fit (ParametricLaplace.fit)
Fit(Ss) ==
    /\ constructed
    /\ cls \in {"FullLaplace", "KronLaplace", "DiagLaplace"}
    /\ \E s \in Ss, override \in BOOLEAN :
        /\ override \/ n_data + s.N <= MaxData
        /\ \E r \in {LET st == [H |-> H, H_facs |-> H_facs, loss |-> loss,
                              n_data |-> n_data]
                   IN  IF cls = "KronLaplace"
                       THEN kron_fit(model, backend_cls, st, s, override)
                       ELSE [H_facs |-> H_facs]
                            @@ parametric_fit(cls, model, backend_cls, st, s, override)} :
            /\ last' = [op |-> "fit", err |-> r.err, stream |-> s, override |-> override]
            /\ H' = r.H
            /\ H_facs' = r.H_facs
            /\ loss' = r.loss
            /\ n_data' = r.n_data
            /\ mean' = fit_mean(model)
            /\ saved' = fit_saved(saved, cls, override, r.H, n_data, s.N)
            /\ posterior_scale' = IF cls = "FullLaplace" THEN NoScale ELSE posterior_scale
            /\ IF r.err = OK
               THEN /\ n_outputs' = model.out
                    /\ model' = [model EXCEPT !.output_size = model.out]
                    /\ phase' = "fitted"
               ELSE UNCHANGED <<n_outputs, model, phase>>
            /\ UNCHANGED <<cls, likelihood, reward_modeling, prior_precision, prior_mean,
                           sigma_noise, temperature, enable_backprop, backend_cls,
                           backend_kwargs, gp>>

\* Variant of the low-rank fit that refits when asked to update.
lowrank_fit_refitting(m, st, s, override) ==
    [err |-> OK, H |-> eig_lowrank(s).H, loss |-> eig_lowrank(s).loss,
     n_data |-> s.N, mean |-> T1(parameters_to_vector(m.layers)),
     n_outputs |-> m.out]

\* LowRankLaplace.fit on st = [H, loss, n_data, mean, n_outputs].
lowrank_fit(m, st, s, override) ==
    IF ~override
    THEN [err |-> ErrNoUpdate, H |-> st.H, loss |-> st.loss, n_data |-> st.n_data,
          mean |-> st.mean, n_outputs |-> st.n_outputs]
    ELSE [err |-> OK, H |-> eig_lowrank(s).H, loss |-> eig_lowrank(s).loss,
          n_data |-> s.N, mean |-> T1(parameters_to_vector(m.layers)),
          n_outputs |-> m.out]

FitLowRank(Ss) ==
    /\ UNCHANGED saved
    /\ \E s \in Ss, override \in BOOLEAN :
        LET r == lowrank_fit(model,
                             [H |-> H, loss |-> loss, n_data |-> n_data, mean |-> mean,
                              n_outputs |-> n_outputs],
                             s, override)
        IN  /\ constructed
            /\ cls = "LowRankLaplace"
            /\ ~s.mapping
            /\ last' = [op |-> "fit", err |-> r.err, stream |-> s, override |-> override]
            /\ H' = r.H
            /\ loss' = r.loss
            /\ n_data' = r.n_data
            /\ mean' = r.mean
            /\ n_outputs' = r.n_outputs
            /\ IF r.err = OK
               THEN /\ model' = [model EXCEPT !.output_size = model.out]
                    /\ phase' = "fitted"
               ELSE UNCHANGED <<model, phase>>
            /\ UNCHANGED <<cls, likelihood, reward_modeling, prior_precision, prior_mean,
                           sigma_noise, temperature, enable_backprop, backend_cls,
                           backend_kwargs, H_facs, posterior_scale, gp>>

MaxLoss == 4         \* cap on the loss a FunctionalLaplace accumulates over its fits

ErrNotCallable == "'dict' object is not callable"
ErrSample == "Cannot take a larger sample than population when 'replace=False'"
ErrCholesky == "linalg.cholesky: The factorization could not be completed"

\* FunctionalLaplace._build_Sigma_inv: the Cholesky factor of
\* gp_kernel_prior_variance * K_MM + diag(1 / (H_factor * L)), or the error
\* torch.linalg.cholesky raises when that matrix is not positive definite.
build_Sigma_inv(g, pp, sig, chol_ok) ==
    IF chol_ok
    THEN [err |-> OK,
          Sigma_inv |-> [state |-> "built", prior_precision |-> pp,
                         sigma_noise |-> sig, K_MM |-> g.K_MM]]
    ELSE [err |-> ErrCholesky, Sigma_inv |-> g.Sigma_inv]

stream_loss(s) == SumSeq([i \in DOMAIN s.batches |-> batch_loss(s.batches[i])])

\* FunctionalLaplace.fit on the fields g (and loss): the outcome and the fields
\* after the call, at the point where it returned or raised.
gp_fit(m, be, g, l, pp, sig, s, chol_ok) ==
    LET M == IF g.M = None THEN s.N ELSE g.M
        g1 == [g EXCEPT !.batch_size = s.batch_size]
        g2 == [g1 EXCEPT !.M = M,
                         !.train_loader = [state |-> "SoD", stream |-> s, M |-> M],
                         !.prior_factor_sod = [state |-> "set", ratio |-> Rat(M, s.N)],
                         !.K_MM = [state |-> "empty"],
                         !.Sigma_inv = [state |-> "empty"]]
        g3 == [g2 EXCEPT !.K_MM = [state |-> "built", stream |-> s, M |-> M],
                         !.L = [state |-> "built", stream |-> s, M |-> M],
                         !.mu = [state |-> "built", stream |-> s, M |-> M]]
        b == build_Sigma_inv(g3, pp, sig, chol_ok)
    IN  IF M > s.N
        THEN [err |-> ErrSample, gp |-> [g1 EXCEPT !.M = M], loss |-> l]
        ELSE IF be = "kwargs"
        THEN [err |-> ErrNotCallable, gp |-> g2, loss |-> l]
        ELSE IF b.err # OK
        THEN [err |-> b.err, gp |-> [g3 EXCEPT !.Sigma_inv = b.Sigma_inv],
              loss |-> l + stream_loss(s)]
        ELSE [err |-> OK,
              gp |-> [g3 EXCEPT !.Sigma_inv = b.Sigma_inv, !.fitted = TRUE],
              loss |-> l + stream_loss(s)]

FitGP(Ss) ==
    /\ UNCHANGED saved
    /\ constructed
    /\ cls = "FunctionalLaplace"
    /\ \E s \in Ss, chol_ok \in BOOLEAN :
        /\ ~s.mapping
        /\ loss + stream_loss(s) <= MaxLoss
        /\ \E r \in {gp_fit(model, backend_cls, gp, loss, prior_precision, sigma_noise,
                         s, chol_ok)} :
            /\ last' = [op |-> "fit", err |-> r.err, stream |-> s, override |-> TRUE]
            /\ n_outputs' = model.out
            /\ model' = [model EXCEPT !.output_size = model.out]
            /\ n_data' = s.N
            /\ gp' = r.gp
            /\ loss' = r.loss
            /\ phase' = IF r.err = OK THEN "fitted" ELSE phase
            /\ UNCHANGED <<cls, likelihood, reward_modeling, prior_precision, prior_mean,
                           sigma_noise, temperature, enable_backprop, backend_cls,
                           backend_kwargs, H, H_facs, mean, posterior_scale>>

(***************************************************************************)
(* The kernel matrix K_MM that FunctionalLaplace.fit fills, for the dense  *)
(* kernel (diagonal_kernel=False).  Rows and columns are the M * C pairs   *)
(* (sampled point, output); an entry is the inner product of the Jacobian  *)
(* rows of two such pairs, named by the set of the two.                    *)
(***************************************************************************)
\* An entry of torch.empty that was never assigned.
Uninit == {}

Min2(a, b) == IF a < b THEN a ELSE b

\* FunctionalLaplace._init_K_MM
init_K_MM(MC) == [r \in 1..MC |-> [c \in 1..MC |-> Uninit]]

\* The number of batches the subset-of-data loader yields for M points.
n_batches(M, b) == (M + b - 1) \div b

\* The number of points in batch i (from 0) of the loader.
batch_len(i, M, b) == Min2((i + 1) * b, M) - i * b

\* FunctionalLaplace._kernel_batch(Js_batch of batch i, X2 of batch j)
kernel_batch(i, j, M, b, C) ==
    [u \in 1..(batch_len(i, M, b) * C) |->
        [v \in 1..(batch_len(j, M, b) * C) |-> {i * b * C + u, j * b * C + v}]]

\* Variant of the store that writes the block and never its mirror.
store_K_batch_unmirrored(K, K_batch, i, j, bC, MC) ==
    LET rlo == i * bC
        rhi == Min2((i + 1) * bC, MC)
        clo == j * bC
        chi == Min2((j + 1) * bC, MC)
    IN  [r \in 1..MC |-> [c \in 1..MC |->
            IF r \in (rlo + 1)..rhi /\ c \in (clo + 1)..chi
            THEN K_batch[r - rlo][c - clo] ELSE K[r][c]]]

\* FunctionalLaplace._store_K_batch(K_batch, i, j) for the dense kernel
store_K_batch(K, K_batch, i, j, bC, MC) ==
    LET rlo == i * bC
        rhi == Min2((i + 1) * bC, MC)
        clo == j * bC
        chi == Min2((j + 1) * bC, MC)
        K1 == [r \in 1..MC |-> [c \in 1..MC |->
                IF r \in (rlo + 1)..rhi /\ c \in (clo + 1)..chi
                THEN K_batch[r - rlo][c - clo] ELSE K[r][c]]]
    IN  IF i = j THEN K1
        ELSE [r \in 1..MC |-> [c \in 1..MC |->
                IF r \in (clo + 1)..chi /\ c \in (rlo + 1)..rhi
                THEN K_batch[c - rlo][r - clo] ELSE K1[r][c]]]

\* The two loops of FunctionalLaplace.fit over the batches of the loader, from
\* pair (i, j) on: the matrix and the pairs the kernel was computed for.
RECURSIVE fit_kernel_loop(_, _, _, _, _, _, _)
fit_kernel_loop(K, computed, i, j, M, b, C) ==
    IF i >= n_batches(M, b) THEN [K_MM |-> K, computed |-> computed]
    ELSE IF j >= n_batches(M, b) THEN fit_kernel_loop(K, computed, i + 1, 0, M, b, C)
    ELSE IF j >= i
    THEN fit_kernel_loop(store_K_batch(K, kernel_batch(i, j, M, b, C), i, j, b * C, M * C),
                         computed \cup {<<i, j>>}, i, j + 1, M, b, C)
    ELSE fit_kernel_loop(K, computed, i, j + 1, M, b, C)

\* The kernel matrix after a fit with subset size M, batch size b and C outputs.
fit_K_MM(M, b, C) == fit_kernel_loop(init_K_MM(M * C), {}, 0, 0, M, b, C)

(***************************************************************************)
(* Setters and log_marginal_likelihood                                     *)
(***************************************************************************)
\* self.prior_precision = x
SetPriorPrecision(Xs) ==
    /\ UNCHANGED saved
    /\ \E x \in Xs :
        LET r == prior_precision_setter(cls, x, prior_precision, model) IN
        /\ constructed
        /\ last' = [op |-> "set_prior_precision", err |-> r.err, x |-> x]
        /\ posterior_scale' = NoScale
        /\ prior_precision' = r.val
        /\ gp' = IF cls = "FunctionalLaplace" /\ r.err = OK
                 THEN [gp EXCEPT !.recompute_Sigma = TRUE] ELSE gp
        /\ UNCHANGED <<phase, cls, model, likelihood, reward_modeling, prior_mean,
                       sigma_noise, temperature, enable_backprop, backend_cls,
                       backend_kwargs, H, H_facs, loss, n_data, n_outputs, mean>>

\* self.sigma_noise = x
SetSigmaNoise(Xs) ==
    /\ UNCHANGED saved
    /\ \E x \in Xs :
        LET r == sigma_noise_setter(x, sigma_noise) IN
        /\ constructed
        /\ last' = [op |-> "set_sigma_noise", err |-> r.err, x |-> x]
        /\ posterior_scale' = NoScale
        /\ sigma_noise' = r.val
        /\ UNCHANGED <<phase, cls, model, likelihood, reward_modeling, prior_precision,
                       prior_mean, temperature, enable_backprop, backend_cls,
                       backend_kwargs, H, H_facs, loss, n_data, n_outputs, mean, gp>>

\* self.temperature = t: temperature is a plain attribute
SetTemperature(Ts) ==
    /\ UNCHANGED saved
    /\ \E t \in Ts :
        /\ constructed
        /\ last' = [op |-> "set_temperature", err |-> OK, x |-> t]
        /\ temperature' = t
        /\ UNCHANGED <<phase, cls, model, likelihood, reward_modeling, prior_precision,
                       prior_mean, sigma_noise, enable_backprop, backend_cls,
                       backend_kwargs, H, H_facs, loss, n_data, n_outputs, mean,
                       posterior_scale, gp>>

NonePy == [kind |-> "None", ndim |-> 0, v |-> <<>>]

ErrSigmaLML == "Can only change sigma_noise for regression."
ErrNotFitted == "Laplace not fitted. Run fit() first."
ErrNoneType == "unsupported operand type(s): 'NoneType'"

\* The evaluation of log_likelihood - 0.5 * (log_det_ratio + scatter) on the
\* fields held: OK, or the error raised on the way.
marglik_value_err(c, m, lik, pp, h, nout, g) ==
    IF lik = "regression" /\ nout = None THEN ErrNoneType
    ELSE IF c = "FunctionalLaplace"
         THEN IF g.K_MM.state = "built" /\ g.mu.state = "built" THEN OK ELSE ErrNoneType
    ELSE IF h = NoneH THEN ErrNotFitted
    ELSE IF Len(pp) \notin {1, n_params_of(m), n_layers_of(m)} THEN ErrNoneType
    ELSE OK

\* A value never returned: the call raised.
NoValue == [kind |-> "None"]

\* BaseLaplace._H_factor, 1 / sigma_noise^2 / temperature, as the pair it is
\* computed from.
H_factor(sig, temp) == <<sig, temp>>

\* BaseLaplace.log_likelihood as the term it is computed from.
log_likelihood(lik, sig, temp, l, N, nout) ==
    [factor |-> H_factor(sig, temp), loss |-> l,
     c |-> IF lik = "regression" THEN <<N, nout, sig>> ELSE <<>>]

\* The prior precision diagonal read by log_det_prior_precision and scatter.
diag_held(pp, m) ==
    IF Len(pp) = 1 THEN Repeat(pp[1], n_params_of(m))
    ELSE IF Len(pp) = n_params_of(m) THEN pp
    ELSE Flatten([k \in 1..n_layers_of(m) |-> Repeat(pp[k], Len(params_of(m)[k].data))])

\* log_likelihood - 0.5 * (log_det_ratio + scatter) as the term it is
\* computed from, on an instance inst whose evaluation does not raise.
marglik_value(inst) ==
    IF inst.cls = "FunctionalLaplace"
    THEN [log_likelihood |-> log_likelihood(inst.likelihood, inst.sigma_noise,
                                            inst.temperature, inst.loss, inst.n_data,
                                            inst.n_outputs),
          log_det_ratio |-> <<inst.gp.K_MM, inst.gp.L, inst.gp.prior_factor_sod,
                              inst.prior_precision,
                              H_factor(inst.sigma_noise, inst.temperature)>>,
          scatter |-> <<inst.gp.K_MM, inst.gp.mu, inst.gp.prior_factor_sod,
                        inst.prior_precision,
                        IF inst.likelihood = "regression" THEN inst.sigma_noise ELSE 0>>]
    ELSE LET ppd == diag_held(inst.prior_precision, inst.model)
         IN  [log_likelihood |-> log_likelihood(inst.likelihood, inst.sigma_noise,
                                                inst.temperature, inst.loss,
                                                inst.n_data, inst.n_outputs),
              log_det_posterior_precision |->
                  IF inst.cls = "KronLaplace" /\ inst.H.kind = "Kron"
                  THEN <<ppd>>
                  ELSE <<inst.H, H_factor(inst.sigma_noise, inst.temperature),
                         IF inst.cls = "KronLaplace" THEN inst.prior_precision ELSE ppd>>,
              log_det_prior_precision |-> ppd,
              scatter |-> <<inst.mean, inst.prior_mean, ppd>>]

\* A log_marginal_likelihood whose sigma_noise argument is added to the noise
\* held instead of replacing it.
log_marginal_likelihood_accumulating(c, m, lik, pp_cur, sig_cur, h, nout, g, pp, sn) ==
    LET r_pp == IF pp = NonePy THEN [err |-> OK, val |-> pp_cur]
                ELSE prior_precision_setter(c, pp, pp_cur, m)
        r_sn == IF sn = NonePy THEN [err |-> OK, val |-> sig_cur]
                ELSE [err |-> sigma_noise_setter(sn, sig_cur).err,
                      val |-> sig_cur + sigma_noise_setter(sn, sig_cur).val]
    IN  IF r_pp.err # OK
        THEN [err |-> r_pp.err, prior_precision |-> r_pp.val, sigma_noise |-> sig_cur,
              set_pp |-> FALSE]
        ELSE IF sn # NonePy /\ lik # "regression"
        THEN [err |-> ErrSigmaLML, prior_precision |-> r_pp.val, sigma_noise |-> sig_cur,
              set_pp |-> pp # NonePy]
        ELSE IF r_sn.err # OK
        THEN [err |-> r_sn.err, prior_precision |-> r_pp.val, sigma_noise |-> sig_cur,
              set_pp |-> pp # NonePy]
        ELSE [err |-> marglik_value_err(c, m, lik, r_pp.val, h, nout, g),
              prior_precision |-> r_pp.val, sigma_noise |-> r_sn.val,
              set_pp |-> pp # NonePy]

\* log_marginal_likelihood(prior_precision, sigma_noise) of ParametricLaplace
\* and of FunctionalLaplace: the outcome and the prior precision and noise
\* held afterwards.
log_marginal_likelihood(c, m, lik, pp_cur, sig_cur, h, nout, g, pp, sn) ==
    LET r_pp == IF pp = NonePy THEN [err |-> OK, val |-> pp_cur]
                ELSE prior_precision_setter(c, pp, pp_cur, m)
        r_sn == IF sn = NonePy THEN [err |-> OK, val |-> sig_cur]
                ELSE sigma_noise_setter(sn, sig_cur)
    IN  IF r_pp.err # OK
        THEN [err |-> r_pp.err, prior_precision |-> r_pp.val, sigma_noise |-> sig_cur,
              set_pp |-> FALSE]
        ELSE IF sn # NonePy /\ lik # "regression"
        THEN [err |-> ErrSigmaLML, prior_precision |-> r_pp.val, sigma_noise |-> sig_cur,
              set_pp |-> pp # NonePy]
        ELSE IF r_sn.err # OK
        THEN [err |-> r_sn.err, prior_precision |-> r_pp.val, sigma_noise |-> r_sn.val,
              set_pp |-> pp # NonePy]
        ELSE [err |-> marglik_value_err(c, m, lik, r_pp.val, h, nout, g),
              prior_precision |-> r_pp.val, sigma_noise |-> r_sn.val,
              set_pp |-> pp # NonePy]

LogMarginalLikelihood ==
    /\ UNCHANGED saved
    /\ \E pp \in {NonePy, Scalar(1), Tensor(1, <<2, 3>>)},
       sn \in {NonePy, Scalar(1), Scalar(2)} :
        LET r == log_marginal_likelihood(cls, model, likelihood, prior_precision,
                                         sigma_noise, H, n_outputs, gp, pp, sn)
        IN  /\ constructed
            /\ last' = [op |-> "log_marginal_likelihood", err |-> r.err,
                        x |-> pp, sn |-> sn,
                        repeated |-> (last.op = "log_marginal_likelihood"
                                      /\ last.x = pp /\ last.sn = sn),
                        value |->
                            IF r.err # OK THEN NoValue
                            ELSE marglik_value(
                                [cls |-> cls, model |-> model, likelihood |-> likelihood,
                                 prior_precision |-> r.prior_precision,
                                 sigma_noise |-> r.sigma_noise,
                                 temperature |-> temperature, H |-> H, loss |-> loss,
                                 n_data |-> n_data, n_outputs |-> n_outputs,
                                 mean |-> mean, prior_mean |-> prior_mean, gp |-> gp])]
            /\ prior_precision' = r.prior_precision
            /\ sigma_noise' = r.sigma_noise
            /\ posterior_scale' = IF pp # NonePy \/ (sn # NonePy /\ likelihood = "regression")
                                  THEN NoScale ELSE posterior_scale
            /\ gp' = IF cls = "FunctionalLaplace" /\ r.set_pp
                     THEN [gp EXCEPT !.recompute_Sigma = TRUE] ELSE gp
            /\ UNCHANGED <<phase, cls, model, likelihood, reward_modeling, prior_mean,
                           temperature, enable_backprop, backend_cls, backend_kwargs,
                           H, H_facs, loss, n_data, n_outputs, mean>>

(***************************************************************************)
(* Reads                                                                   *)
(***************************************************************************)
\* ParametricLaplace._check_H_init
check_H_init(h) == IF h = NoneH THEN ErrNotFitted ELSE OK

ErrKronArith == "unsupported operand for Kron"
ErrNoKfacs == "'NoneType' object has no attribute 'kfacs'"

\* Reading self.posterior_precision.  On an undecomposed Kron the sum
\* H * H_factor + prior_precision is arithmetic of laplace.utils.Kron, which
\* either answers or raises: both outcomes are allowed (ok_arith).
posterior_precision_err(c, h, ok_arith) ==
    IF check_H_init(h) # OK THEN check_H_init(h)
    ELSE IF c = "KronLaplace" /\ h.kind = "Kron" /\ ~ok_arith THEN ErrKronArith
    ELSE OK

\* FullLaplace.posterior_precision, H_factor * H + diag(prior_precision_diag),
\* as the term it is computed from.
posterior_precision_full(h, sig, temp, pp, m) ==
    [H |-> h, H_factor |-> H_factor(sig, temp), prior |-> diag_held(pp, m)]

\* laplace.utils.invsqrt_precision(M): the inverse square root of M.
invsqrt_precision(M) == [kind |-> "scale", of |-> M]

\* FullLaplace._compute_scale
compute_scale(h, sig, temp, pp, m) ==
    invsqrt_precision(posterior_precision_full(h, sig, temp, pp, m))

ReadPosteriorPrecision ==
    /\ UNCHANGED saved
    /\ \E ok_arith \in BOOLEAN :
        /\ constructed
        /\ cls \in Parametric
        /\ last' = [op |-> "posterior_precision",
                    err |-> posterior_precision_err(cls, H, ok_arith)]
        /\ UNCHANGED <<phase, cls, model, likelihood, reward_modeling, prior_precision,
                       prior_mean, sigma_noise, temperature, enable_backprop, backend_cls,
                       backend_kwargs, H, H_facs, loss, n_data, n_outputs, mean,
                       posterior_scale, gp>>

\* state_dict() of ParametricLaplace, KronLaplace and FunctionalLaplace: the outcome
state_dict_err(c, h, facs) ==
    IF c = "FunctionalLaplace" THEN OK
    ELSE IF check_H_init(h) # OK THEN check_H_init(h)
    ELSE IF c = "KronLaplace" /\ facs = NoneH THEN ErrNoKfacs
    ELSE OK

(***************************************************************************)
(* Serialisation                                                           *)
(***************************************************************************)
\* The dictionary state_dict() returns (ParametricLaplace.state_dict, with
\* KronLaplace.state_dict storing H_facs.kfacs under 'H', and
\* FunctionalLaplace.state_dict storing its own fields, here under gp).
state_dict(c, mu, h, facs, l, pm, pp, sn, nd, no, lik, temp, ebp, g) ==
    [cls_name |-> c,
     mean |-> IF c = "FunctionalLaplace" THEN T1(g.map_estimate) ELSE mu,
     H |-> IF c = "FunctionalLaplace" THEN NoneH
           ELSE IF c = "KronLaplace" THEN [kind |-> "kfacs", kfacs |-> facs.kfacs]
           ELSE h,
     loss |-> l, prior_mean |-> pm, prior_precision |-> pp, sigma_noise |-> sn,
     n_data |-> nd, n_outputs |-> no, likelihood |-> lik, temperature |-> temp,
     enable_backprop |-> ebp,
     gp |-> IF c = "FunctionalLaplace" THEN g ELSE NoGP]

\* A dictionary d as its caller holds it: dict is its content now, orig its
\* content when state_dict() returned it (or when it was loaded), aliased tells
\* whether the instance still holds the curvature object stored in it.
kept_dict(d) == [dict |-> d, orig |-> d, aliased |-> TRUE]

StateDict(keep) ==
    /\ constructed
    /\ last' = [op |-> "state_dict", err |-> state_dict_err(cls, H, H_facs)]
    /\ saved' = IF keep /\ state_dict_err(cls, H, H_facs) = OK
                THEN kept_dict(state_dict(cls, mean, H, H_facs, loss, prior_mean,
                                          prior_precision, sigma_noise, n_data,
                                          n_outputs, likelihood, temperature,
                                          enable_backprop, gp))
                ELSE saved
    /\ UNCHANGED <<phase, cls, model, likelihood, reward_modeling, prior_precision,
                   prior_mean, sigma_noise, temperature, enable_backprop, backend_cls,
                   backend_kwargs, H, H_facs, loss, n_data, n_outputs, mean,
                   posterior_scale, gp>>

(***************************************************************************)
(* The predictive entry point                                              *)
(***************************************************************************)
ErrPredType == "Only glm and nn supported as prediction types."
ErrLink == "Unsupported link approximation"
ErrNNLink == "Only mc link approximation is supported for nn prediction type."
ErrGenerator == "Invalid random generator (check type and device)."
ErrShape == "shape is invalid for input"
ErrSlice == "slice() cannot be applied to a 0-dim tensor"
ErrStack == "stack expects a non-empty TensorList"
ErrMatmul == "mat1 and mat2 shapes cannot be multiplied"

LinkApprox == {"mc", "probit", "bridge", "bridge_norm"}

\* Variant of the argument checks that lets nn go with any known link.
call_args_err_any_link(pred_type, link_approx, generator) ==
    IF pred_type \notin {"glm", "nn"} THEN ErrPredType
    ELSE IF link_approx \notin LinkApprox THEN ErrLink
    ELSE IF generator # "None" THEN ErrGenerator
    ELSE OK

\* The argument checks at the head of ParametricLaplace.__call__.
call_args_err(pred_type, link_approx, generator) ==
    IF pred_type \notin {"glm", "nn"} THEN ErrPredType
    ELSE IF link_approx \notin LinkApprox THEN ErrLink
    ELSE IF pred_type = "nn" /\ link_approx # "mc" THEN ErrNNLink
    ELSE IF generator # "None" THEN ErrGenerator
    ELSE OK

\* torch.nn.utils.vector_to_parameters(vec, self.params): consecutive slices
\* of vec are written into the trainable parameter tensors.
vector_to_parameters(vec, layers) ==
    LET offset(k) ==
            SumSeq([j \in 1..(k - 1) |->
                IF layers[j].requires_grad THEN Len(layers[j].data) ELSE 0])
    IN  [k \in DOMAIN layers |->
            IF layers[k].requires_grad
            THEN [layers[k] EXCEPT !.data =
                    [i \in DOMAIN layers[k].data |-> vec[offset(k) + i]]]
            ELSE layers[k]]

\* One draw of self.sample(): the mean plus noise.
sample_of(mu) == [i \in DOMAIN mu.v |-> mu.v[i] + 100]

\* What reading the posterior for a prediction raises, if anything.  The
\* low-rank sample multiplies the backend's eigenvectors with n_params random
\* rows: when some parameters are frozen the product answers or raises with
\* the number of rows the backend gave the eigenvectors (ok_arith).
posterior_err(c, m, h, mu, pred_type, ok_arith) ==
    IF posterior_precision_err(c, h, ok_arith) # OK
    THEN posterior_precision_err(c, h, ok_arith)
    ELSE IF pred_type = "nn" /\ c # "LowRankLaplace" /\ mu.ndim = 0
            /\ n_params_of(m) # 1 THEN ErrShape
    ELSE IF pred_type = "nn" /\ c = "LowRankLaplace" /\ is_subset_params_of(m)
            /\ ~ok_arith THEN ErrMatmul
    ELSE OK

\* ParametricLaplace.__call__(x, pred_type, link_approx, n_samples, generator)
Call ==
    /\ UNCHANGED saved
    /\ \E pred_type \in {"glm", "nn", "gp"}, link_approx \in {"mc", "probit", "logit"},
       generator \in {"None", "cpu_generator_for_gpu_input"}, n_samples \in {0, 1},
       ok_arith \in IF H.kind = "Kron"
                       \/ (cls = "LowRankLaplace" /\ is_subset_params)
                    THEN BOOLEAN ELSE {TRUE} :
        LET e1 == call_args_err(pred_type, link_approx, generator)
            lik == IF reward_modeling /\ likelihood = "classification"
                   THEN "regression" ELSE likelihood
            m1 == IF reward_modeling /\ likelihood = "classification"
                  THEN [model EXCEPT !.output_size = 1] ELSE model
            e2 == posterior_err(cls, model, H, mean, pred_type, ok_arith)
            sampled == IF n_samples > 0
                       THEN [m1 EXCEPT !.layers = vector_to_parameters(sample_of(mean),
                                                                       m1.layers)]
                       ELSE m1
            restored == [m1 EXCEPT !.layers = vector_to_parameters(mean.v, m1.layers)]
        IN  /\ constructed
            /\ cls \in Parametric
            /\ IF e1 # OK
               THEN /\ last' = [op |-> "call", err |-> e1, pred_type |-> pred_type,
                                link_approx |-> link_approx]
                    /\ UNCHANGED <<likelihood, model, posterior_scale>>
               ELSE /\ likelihood' = lik
                    /\ IF e2 # OK
                       THEN /\ last' = [op |-> "call", err |-> e2, pred_type |-> pred_type,
                                        link_approx |-> link_approx]
                            /\ model' = m1
                            /\ UNCHANGED posterior_scale
                       ELSE /\ posterior_scale' =
                                  IF cls = "FullLaplace" /\ posterior_scale = NoScale
                                  THEN compute_scale(H, sigma_noise, temperature,
                                                     prior_precision, model)
                                  ELSE posterior_scale
                            /\ IF pred_type = "glm"
                               THEN /\ model' = m1
                                    /\ last' = [op |-> "call", err |-> OK,
                                                pred_type |-> pred_type,
                                                link_approx |-> link_approx]
                               ELSE IF mean.ndim = 0
                               THEN /\ model' = sampled
                                    /\ last' = [op |-> "call", err |-> ErrSlice,
                                                pred_type |-> pred_type,
                                                link_approx |-> link_approx]
                               ELSE /\ model' = restored
                                    /\ last' = [op |-> "call",
                                                err |-> IF lik = "regression"
                                                           /\ n_samples = 0
                                                        THEN ErrStack ELSE OK,
                                                pred_type |-> pred_type,
                                                link_approx |-> link_approx]
            /\ UNCHANGED <<phase, cls, reward_modeling, prior_precision, prior_mean,
                           sigma_noise, temperature, enable_backprop, backend_cls,
                           backend_kwargs, H, H_facs, loss, n_data, n_outputs, mean, gp>>

ErrNotFittedGP == "Functional Laplace has not been fitted to any training dataset."
ErrPredTypeGP == "Only gp supported as prediction types."

\* Variant of the call that predicts from the Cholesky factor it finds.
gp_call_stale(g, lik, reward, pp, sig, pred_type, link_approx, generator, chol_ok) ==
    LET flip == reward /\ lik = "classification"
    IN  IF g.fitted = FALSE THEN [err |-> ErrNotFittedGP, gp |-> g, flip |-> FALSE]
        ELSE IF pred_type \notin {"gp"} THEN [err |-> ErrPredTypeGP, gp |-> g, flip |-> FALSE]
        ELSE IF link_approx \notin LinkApprox THEN [err |-> ErrLink, gp |-> g, flip |-> FALSE]
        ELSE IF generator # "None" THEN [err |-> ErrGenerator, gp |-> g, flip |-> FALSE]
        ELSE [err |-> OK, gp |-> g, flip |-> flip]

\* Variant of the call that does not look at the fitted flag.
gp_call_unguarded(g, lik, reward, pp, sig, pred_type, link_approx, generator, chol_ok) ==
    LET b == build_Sigma_inv(g, pp, sig, chol_ok)
        g1 == IF g.recompute_Sigma THEN [g EXCEPT !.Sigma_inv = b.Sigma_inv] ELSE g
        flip == reward /\ lik = "classification"
    IN  IF g.recompute_Sigma /\ b.err # OK THEN [err |-> b.err, gp |-> g, flip |-> FALSE]
        ELSE IF pred_type \notin {"gp"} THEN [err |-> ErrPredTypeGP, gp |-> g1, flip |-> FALSE]
        ELSE IF link_approx \notin LinkApprox THEN [err |-> ErrLink, gp |-> g1, flip |-> FALSE]
        ELSE IF generator # "None" THEN [err |-> ErrGenerator, gp |-> g1, flip |-> FALSE]
        ELSE [err |-> OK, gp |-> g1, flip |-> flip]

\* FunctionalLaplace.__call__(x, pred_type, link_approx, generator): the
\* outcome and the fields after the call.
gp_call(g, lik, reward, pp, sig, pred_type, link_approx, generator, chol_ok) ==
    LET b == build_Sigma_inv(g, pp, sig, chol_ok)
        g1 == IF g.recompute_Sigma THEN [g EXCEPT !.Sigma_inv = b.Sigma_inv] ELSE g
        flip == reward /\ lik = "classification"
    IN  IF g.fitted = FALSE THEN [err |-> ErrNotFittedGP, gp |-> g, flip |-> FALSE]
        ELSE IF g.recompute_Sigma /\ b.err # OK THEN [err |-> b.err, gp |-> g, flip |-> FALSE]
        ELSE IF pred_type \notin {"gp"} THEN [err |-> ErrPredTypeGP, gp |-> g1, flip |-> FALSE]
        ELSE IF link_approx \notin LinkApprox THEN [err |-> ErrLink, gp |-> g1, flip |-> FALSE]
        ELSE IF generator # "None" THEN [err |-> ErrGenerator, gp |-> g1, flip |-> FALSE]
        ELSE [err |-> OK, gp |-> g1, flip |-> flip]

CallGP ==
    /\ UNCHANGED saved
    /\ constructed
    /\ cls = "FunctionalLaplace"
    /\ \E pred_type \in {"glm", "gp"}, link_approx \in {"mc", "probit", "logit"},
          generator \in {"None", "cpu_generator_for_gpu_input"}, chol_ok \in BOOLEAN :
        \E r \in {gp_call(gp, likelihood, reward_modeling, prior_precision, sigma_noise,
                          pred_type, link_approx, generator, chol_ok)} :
            /\ last' = [op |-> "call", err |-> r.err, pred_type |-> pred_type,
                        link_approx |-> link_approx,
                        rebuilt |-> (r.gp.Sigma_inv # gp.Sigma_inv)]
            /\ gp' = r.gp
            /\ likelihood' = IF r.flip THEN "regression" ELSE likelihood
            /\ model' = IF r.flip THEN [model EXCEPT !.output_size = 1] ELSE model
            /\ UNCHANGED <<phase, cls, reward_modeling, prior_precision, prior_mean,
                           sigma_noise, temperature, enable_backprop, backend_cls,
                           backend_kwargs, H, H_facs, loss, n_data, n_outputs, mean,
                           posterior_scale>>

\* A stream used to produce the dictionaries that are loaded.
SavedStream == [batches |-> <<1>>, N |-> 1, batch_size |-> 2, mapping |-> FALSE]

\* Loaders of one to MaxData points in batches of one or two.
KernelStreams ==
    {[batches |-> <<1>>, N |-> n, batch_size |-> b, mapping |-> FALSE] :
        n \in 1..MaxData, b \in {1, 2}}

\* A loader over an empty dataset.
EmptyStream == [batches |-> <<>>, N |-> 0, batch_size |-> 2, mapping |-> FALSE]

\* A second stream, with other batches than SavedStream.
OtherStream == [batches |-> <<2>>, N |-> 1, batch_size |-> 2, mapping |-> FALSE]

\* state_dict() of a fresh instance of class c constructed with the defaults
\* on predictor m and fitted once on SavedStream.
fitted_dict(c, m, lik) ==
    LET i == base_init(c, m, lik, Scalar(1), Scalar(1), "False", default_backend(c), "None")
        st == [H |-> init_H(c, m), H_facs |-> NoneH, loss |-> 0, n_data |-> 0,
               mean |-> i.prior_mean, n_outputs |-> None]
        r == IF c = "KronLaplace" THEN kron_fit(m, i.backend_cls, st, SavedStream, TRUE)
             ELSE IF c = "LowRankLaplace" THEN lowrank_fit(m, st, SavedStream, TRUE)
             ELSE parametric_fit(c, m, i.backend_cls, st, SavedStream, TRUE)
    IN  state_dict(c, IF c = "LowRankLaplace" THEN r.mean ELSE fit_mean(m), r.H,
                   IF c = "KronLaplace" THEN r.H_facs ELSE NoneH,
                   r.loss, i.prior_mean, i.prior_precision, i.sigma_noise, r.n_data,
                   m.out, i.likelihood, i.temperature, i.enable_backprop, NoGP)

\* state_dict() of a fresh FunctionalLaplace on predictor m, before any fit
\* (fit = FALSE) or after one fit on SavedStream (fit = TRUE).
gp_dict(m, lik, fit) ==
    LET i == base_init("FunctionalLaplace", m, lik, Scalar(1), Scalar(1),
                       "BackPackGGN", "None", "None")
        g0 == [kind |-> "gp", M |-> None, diagonal_kernel |-> FALSE,
               K_MM |-> Unset, Sigma_inv |-> Unset, train_loader |-> Unset,
               batch_size |-> None, prior_factor_sod |-> Unset,
               mu |-> Unset, L |-> Unset,
               map_estimate |-> parameters_to_vector(m.layers),
               fitted |-> FALSE, recompute_Sigma |-> TRUE]
        r == gp_fit(m, i.backend_cls, g0, 0, i.prior_precision, i.sigma_noise,
                    SavedStream, TRUE)
    IN  IF fit
        THEN state_dict("FunctionalLaplace", T0(0), NoneH, NoneH, r.loss, i.prior_mean,
                        i.prior_precision, i.sigma_noise, SavedStream.N, m.out,
                        i.likelihood, i.temperature, "False", r.gp)
        ELSE state_dict("FunctionalLaplace", T0(0), NoneH, NoneH, 0, i.prior_mean,
                        i.prior_precision, i.sigma_noise, 0, None,
                        i.likelihood, i.temperature, "False", g0)

\* Dictionaries saved from the parametric variants ...
StateDicts ==
    {fitted_dict(c, TwoLayer, "regression") : c \in Parametric}
    \cup {fitted_dict("DiagLaplace", OneByOne, "regression"),
          fitted_dict("FullLaplace", TwoLayer, "classification")}

\* ... and from FunctionalLaplace, plus one of another class.
StateDictsGP ==
    {gp_dict(TwoLayer, "regression", fit) : fit \in BOOLEAN}
    \cup {gp_dict(OneByOne, "regression", TRUE),
          gp_dict(TwoLayer, "classification", TRUE),
          fitted_dict("FullLaplace", TwoLayer, "regression")}

\* The dictionary sd as the same instance saves it when it was constructed
\* with temperature=temp and enable_backprop=ebp, which are stored as given.
with_options(sd, temp, ebp) == [sd EXCEPT !.temperature = temp, !.enable_backprop = ebp]

\* Dictionaries of every kind, some saved with another temperature and
\* backprop flag than the instances that load them.
StateDictsAll ==
    StateDicts \cup StateDictsGP
    \cup {fitted_dict(c, FrozenWeight, "regression") : c \in {"DiagLaplace", "LowRankLaplace"}}
    \cup {with_options(fitted_dict(c, TwoLayer, "regression"), 2, "True") :
            c \in {"FullLaplace", "KronLaplace"}}
    \cup {with_options(gp_dict(TwoLayer, "regression", TRUE), 2, "True"),
          gp_dict(FrozenWeight, "regression", TRUE)}

\* Dictionaries saved from the dense variant.
StateDictsFull ==
    {fitted_dict("FullLaplace", TwoLayer, "regression"),
     with_options(fitted_dict("FullLaplace", TwoLayer, "regression"), 2, "False"),
     fitted_dict("DiagLaplace", TwoLayer, "regression")}

\* Dictionaries saved from the Kronecker variant.
StateDictsKron ==
    {fitted_dict("KronLaplace", m, "regression") : m \in {TwoLayer, OneByOne}}
    \cup {fitted_dict("FullLaplace", TwoLayer, "regression")}

\* Dictionaries saved from the Full, Diagonal and Kronecker variants.
StateDictsSnapshot ==
    {fitted_dict(c, TwoLayer, "regression") :
        c \in {"FullLaplace", "DiagLaplace", "KronLaplace"}}

ErrWrongType == "Loading a wrong Laplace type."
ErrWrongParams == "Attempting to load Laplace with different number of parameters than the model."
ErrWrongLikelihood == "Different likelihoods detected!"
ErrLen0d == "len() of a 0-d tensor"

\* Variant of the dealbreaker checks that does not compare the likelihoods.
load_state_dict_err_any_likelihood(c, m, lik, sd) ==
    IF c # sd.cls_name THEN ErrWrongType
    ELSE IF sd.mean.ndim = 0 THEN ErrLen0d
    ELSE IF Len(sd.mean.v) # n_params_of(m) THEN ErrWrongParams
    ELSE OK

\* The dealbreaker checks at the head of load_state_dict.
load_state_dict_err(c, m, lik, sd) ==
    IF c # sd.cls_name THEN ErrWrongType
    ELSE IF sd.mean.ndim = 0 THEN ErrLen0d
    ELSE IF Len(sd.mean.v) # n_params_of(m) THEN ErrWrongParams
    ELSE IF lik # sd.likelihood THEN ErrWrongLikelihood
    ELSE OK

WarnPriorMean == "Loading non-None prior mean into a None prior mean."
WarnTemperature == "Different temperature parameters detected."
WarnBackprop == "Different enable_backprop values."

\* The tensor standing for a prior mean of None: no instance holds it, since
\* the prior_mean setter refuses None.
NoPriorMean == [ndim |-> 0, v |-> <<>>]

\* The ignorable warnings of load_state_dict.
load_warnings(pm, temp, ebp, sd) ==
    (IF pm = NoPriorMean /\ sd.prior_mean # NoPriorMean THEN {WarnPriorMean} ELSE {})
    \cup (IF temp # sd.temperature THEN {WarnTemperature} ELSE {})
    \cup (IF ebp # sd.enable_backprop THEN {WarnBackprop} ELSE {})

ErrPriorMeanLen == "Invalid length of prior mean."
ErrPriorMeanType == "Invalid argument type of prior mean."

\* BaseLaplace.prior_mean.setter for a tensor argument: a 0-d tensor is
\* stored reshaped to one dimension.
prior_mean_setter(x, cur, m) ==
    IF x = NoPriorMean THEN [err |-> ErrPriorMeanType, val |-> cur]
    ELSE IF x.ndim = 0 THEN [err |-> OK, val |-> T1(x.v)]
    ELSE IF Len(x.v) \notin {1, n_params_of(m)}
    THEN [err |-> ErrPriorMeanLen, val |-> cur]
    ELSE [err |-> OK, val |-> x]

\* load_state_dict(state_dict) of ParametricLaplace, KronLaplace and
\* FunctionalLaplace.  The fields are assigned in the order of the code; a
\* setter that raises leaves the later ones as they were.
LoadStateDict(SDs, keep) ==
    \E sd \in SDs :
        LET e == load_state_dict_err(cls, model, likelihood, sd)
            r_pm == prior_mean_setter(sd.prior_mean, prior_mean, model)
            r_pp == prior_precision_setter(cls, Tensor(1, sd.prior_precision),
                                           prior_precision, model)
            r_sig == sigma_noise_setter(Tensor(0, <<sd.sigma_noise>>), sigma_noise)
            ok1 == r_pm.err = OK
            ok2 == ok1 /\ r_pp.err = OK
            ok3 == ok2 /\ r_sig.err = OK
            facs == [kind |-> "Kron", kfacs |-> sd.H.kfacs]
            g1 == [sd.gp EXCEPT !.batch_size = gp.batch_size]
            rebinds == /\ e = OK /\ cls # "FunctionalLaplace"
                       /\ cls = "KronLaplace" => ok3
        IN  /\ constructed
            /\ saved' = IF ~rebinds THEN saved
                        ELSE IF keep THEN kept_dict(sd)
                        ELSE IF saved = NoSaved THEN saved
                        ELSE [saved EXCEPT !.aliased = FALSE]
            /\ last' = [op |-> "load_state_dict",
                        err |-> IF e # OK THEN e ELSE IF ~ok1 THEN r_pm.err
                                ELSE IF ~ok2 THEN r_pp.err ELSE r_sig.err,
                        warnings |-> IF e # OK THEN {}
                                     ELSE load_warnings(prior_mean, temperature,
                                                        enable_backprop, sd),
                        state_dict |-> sd]
            /\ IF e # OK
               THEN UNCHANGED <<phase, model, likelihood, prior_precision, prior_mean,
                                sigma_noise, temperature, enable_backprop, H, H_facs,
                                loss, n_data, n_outputs, mean, posterior_scale, gp>>
               ELSE /\ IF cls = "FunctionalLaplace"
                       THEN /\ UNCHANGED <<mean, H, H_facs, enable_backprop>>
                            /\ gp' = IF ok2 THEN [g1 EXCEPT !.recompute_Sigma = TRUE]
                                     ELSE g1
                       ELSE /\ mean' = sd.mean
                            /\ gp' = gp
                            /\ IF ok3
                               THEN /\ enable_backprop' = sd.enable_backprop
                                    /\ IF cls = "KronLaplace"
                                       THEN H_facs' = facs /\ H' = kron_decompose(facs)
                                       ELSE H' = sd.H /\ UNCHANGED H_facs
                               ELSE H' = sd.H /\ UNCHANGED <<H_facs, enable_backprop>>
                    /\ loss' = sd.loss
                    /\ prior_mean' = r_pm.val
                    /\ posterior_scale' = IF ok1 THEN NoScale ELSE posterior_scale
                    /\ prior_precision' = IF ok1 THEN r_pp.val ELSE prior_precision
                    /\ sigma_noise' = IF ok2 THEN r_sig.val ELSE sigma_noise
                    /\ IF ok3
                       THEN /\ n_data' = sd.n_data
                            /\ n_outputs' = sd.n_outputs
                            /\ model' = [model EXCEPT !.output_size = sd.n_outputs]
                            /\ likelihood' = sd.likelihood
                            /\ temperature' = sd.temperature
                       ELSE UNCHANGED <<n_data, n_outputs, model, likelihood,
                                        temperature>>
                    /\ phase' = "loaded"
            /\ UNCHANGED <<cls, reward_modeling, backend_cls, backend_kwargs>>

(***************************************************************************)
(* prior_precision_diag                                                    *)
(***************************************************************************)
ErrPriorDiag == "Mismatch of prior and model. Diagonal, scalar, or per-layer prior."

\* Variant of the broadcast that takes a per-layer prior as it is.
prior_precision_diag_unrepeated(pp, m) ==
    IF Len(pp) = 1
    THEN [err |-> OK, val |-> Repeat(pp[1], n_params_of(m))]
    ELSE IF Len(pp) \in {n_params_of(m), n_layers_of(m)}
    THEN [err |-> OK, val |-> pp]
    ELSE [err |-> ErrPriorDiag, val |-> <<>>]

\* BaseLaplace.prior_precision_diag for a stored prior precision pp on
\* predictor m: the vector, or the error raised.
prior_precision_diag_of(pp, m) ==
    IF Len(pp) = 1
    THEN [err |-> OK, val |-> Repeat(pp[1], n_params_of(m))]
    ELSE IF Len(pp) = n_params_of(m)
    THEN [err |-> OK, val |-> pp]
    ELSE IF Len(pp) = n_layers_of(m)
    THEN [err |-> OK,
          val |-> Flatten([k \in 1..n_layers_of(m) |->
                              Repeat(pp[k], Len(params_of(m)[k].data))])]
    ELSE [err |-> ErrPriorDiag, val |-> <<>>]

prior_precision_diag == prior_precision_diag_of(prior_precision, model)

ReadPriorPrecisionDiag ==
    /\ UNCHANGED saved
    /\ constructed
    /\ last' = [op |-> "prior_precision_diag", err |-> prior_precision_diag.err]
    /\ UNCHANGED <<phase, cls, model, likelihood, reward_modeling, prior_precision,
                   prior_mean, sigma_noise, temperature, enable_backprop, backend_cls,
                   backend_kwargs, H, H_facs, loss, n_data, n_outputs, mean,
                   posterior_scale, gp>>

(***************************************************************************)
(* Prior precision optimisation                                            *)
(***************************************************************************)
MaxGrid == 3         \* most points of a grid-search interval

\* np.inf, the score of a grid point whose evaluation raised RuntimeError;
\* the losses that validate returns are smaller.
Inf == 99
Losses == {1, 2}

ErrNoValLoader == "gridsearch requires a validation set DataLoader"
ErrEmptyArgmin == "attempt to get argmin of an empty sequence"

\* torch.logspace(log_prior_prec_min, log_prior_prec_max, grid_size): n
\* increasing values
logspace(n) == [i \in 1..n |-> i]

\* np.argmin: the first index of the smallest entry
argmin(xs) ==
    CHOOSE i \in DOMAIN xs :
        /\ \A j \in DOMAIN xs : xs[i] <= xs[j]
        /\ \A j \in 1..(i - 1) : xs[j] > xs[i]

\* optimize_prior_precision_base(method='gridsearch') with _gridsearch: the
\* outcome and the prior precision held afterwards.  results[i] is what the
\* evaluation of grid point i gave: a loss, or Inf when it raised RuntimeError.
\* An evaluation on an instance without curvature raises the not-fitted error,
\* which is not caught.
gridsearch(pp_cur, h, val_loader, interval, results) ==
    IF val_loader = "None" THEN [err |-> ErrNoValLoader, pp |-> pp_cur]
    ELSE IF interval = <<>> THEN [err |-> ErrEmptyArgmin, pp |-> pp_cur]
    ELSE IF check_H_init(h) # OK
    THEN [err |-> check_H_init(h), pp |-> <<interval[1]>>]
    ELSE [err |-> OK, pp |-> <<interval[argmin(results)]>>]

GridSearch ==
    /\ UNCHANGED saved
    /\ constructed
    /\ cls \in Parametric
    /\ \E val_loader \in {"None", "loader"}, n \in 0..MaxGrid :
        \E results \in [1..n -> Losses \cup {Inf}] :
            LET r == gridsearch(prior_precision, H, val_loader, logspace(n), results)
            IN  /\ val_loader = "None" => n = 0
                /\ last' = [op |-> "gridsearch", err |-> r.err,
                            interval |-> logspace(n), results |-> results]
                /\ prior_precision' = r.pp
                /\ posterior_scale' = IF r.err \in {ErrNoValLoader, ErrEmptyArgmin}
                                      THEN posterior_scale ELSE NoScale
                /\ UNCHANGED <<phase, cls, model, likelihood, reward_modeling,
                               prior_mean, sigma_noise, temperature, enable_backprop,
                               backend_cls, backend_kwargs, H, H_facs, loss, n_data,
                               n_outputs, mean, gp>>

MaxSteps == 2        \* most gradient steps of one marglik optimisation

ErrStructure == "Invalid prior structure"

\* laplace.utils.fix_prior_prec_structure: the scalar v repeated once, per
\* layer or per parameter.
fix_prior_prec_structure(v, prior_structure, nl, np) ==
    CASE prior_structure = "scalar" -> [err |-> OK, val |-> Repeat(v, 1)]
      [] prior_structure = "layerwise" -> [err |-> OK, val |-> Repeat(v, nl)]
      [] prior_structure = "diag" -> [err |-> OK, val |-> Repeat(v, np)]
      [] OTHER -> [err |-> ErrStructure, val |-> <<>>]

\* optimizer.step() on log_prior_prec followed by exp(): every element of the
\* prior precision is multiplied by a positive factor g.
adam_step(theta, g) == [i \in DOMAIN theta |-> theta[i] * g]

\* Variant of the loop that evaluates once and then takes every step.
RECURSIVE marglik_loop_single_eval(_, _, _, _, _, _)
marglik_loop_single_eval(inst, pp, theta, gs, evals, lens) ==
    IF gs = <<>>
    THEN [err |-> OK, pp |-> theta, evals |-> evals, lens |-> lens]
    ELSE IF evals > 0
    THEN marglik_loop_single_eval(inst, pp, adam_step(theta, Head(gs)), Tail(gs),
                                  evals, Append(lens, Len(pp)))
    ELSE marglik_loop_single_eval(inst, theta, adam_step(theta, Head(gs)), Tail(gs),
                                  evals + 1, Append(lens, Len(theta)))

\* The loop of optimize_prior_precision_base(method='marglik') on instance
\* inst: theta is exp(log_prior_prec), pp the prior precision held, gs the
\* factors of the steps still to take, evals the evaluations of the marginal
\* likelihood made and lens the length of the prior precision after each step.
RECURSIVE marglik_loop(_, _, _, _, _, _)
marglik_loop(inst, pp, theta, gs, evals, lens) ==
    IF gs = <<>>
    THEN [err |-> OK, pp |-> theta, evals |-> evals, lens |-> lens]
    ELSE LET r == log_marginal_likelihood(inst.cls, inst.model, inst.likelihood, pp,
                                          inst.sigma_noise, inst.H, inst.n_outputs,
                                          inst.gp, Tensor(1, theta), NonePy)
         IN  IF r.err # OK
             THEN [err |-> r.err, pp |-> r.prior_precision, evals |-> evals + 1,
                   lens |-> lens]
             ELSE marglik_loop(inst, r.prior_precision, adam_step(theta, Head(gs)),
                               Tail(gs), evals + 1,
                               Append(lens, Len(r.prior_precision)))

\* optimize_prior_precision_base(method='marglik', init_prior_prec=init,
\* prior_structure=prior_structure, n_steps=Len(gs)).
optimize_marglik(inst, pp_cur, init, prior_structure, gs) ==
    LET r0 == prior_precision_setter(inst.cls, init, pp_cur, inst.model)
        expand == Len(r0.val) = 1 /\ prior_structure # "scalar"
        fx == fix_prior_prec_structure(r0.val[1], prior_structure,
                                       n_layers_of(inst.model), n_params_of(inst.model))
        r1 == IF ~expand THEN r0
              ELSE IF fx.err # OK THEN [err |-> fx.err, val |-> r0.val]
              ELSE prior_precision_setter(inst.cls, Tensor(1, fx.val), r0.val,
                                          inst.model)
    IN  IF r0.err # OK
        THEN [err |-> r0.err, pp |-> r0.val, evals |-> 0, lens |-> <<>>]
        ELSE IF r1.err # OK
        THEN [err |-> r1.err, pp |-> r1.val, evals |-> 0, lens |-> <<>>]
        ELSE marglik_loop(inst, r1.val, r1.val, gs, 0, <<>>)

OptimizeMarglik ==
    /\ UNCHANGED saved
    /\ constructed
    /\ cls \in Parametric
    /\ \E init \in {Scalar(1), Tensor(1, <<2>>), Tensor(1, <<2, 3>>), Other},
          prior_structure \in {"scalar", "layerwise", "diag", "full"},
          gs \in {Repeat(2, n) : n \in 0..MaxSteps} :
        \E r \in {optimize_marglik([cls |-> cls, model |-> model,
                                     likelihood |-> likelihood,
                                     sigma_noise |-> sigma_noise, H |-> H,
                                     n_outputs |-> n_outputs, gp |-> gp],
                                    prior_precision, init, prior_structure, gs)} :
            /\ last' = [op |-> "optimize_marglik", err |-> r.err, init |-> init,
                        prior_structure |-> prior_structure, n_steps |-> Len(gs),
                        evals |-> r.evals, lens |-> r.lens]
            /\ prior_precision' = r.pp
            /\ posterior_scale' = NoScale
            /\ UNCHANGED <<phase, cls, model, likelihood, reward_modeling, prior_mean,
                           sigma_noise, temperature, enable_backprop, backend_cls,
                           backend_kwargs, H, H_facs, loss, n_data, n_outputs, mean,
                           gp>>

(***************************************************************************)
(* The specification                                                       *)
(***************************************************************************)
\* Fitting, updating, saving and loading instances constructed with the
\* default prior precision and observation noise.
Next ==
    \/ Construct(Parametric, {"regression"}, {Scalar(1)}, {Scalar(1)}, {"None"})
    \/ Construct({"DiagLaplace"}, {"regression"}, {Scalar(1)}, {Scalar(1)},
                 {"CurvlinopsEF"})
    \/ Fit(Streams)
    \/ FitLowRank(Streams)
    \/ ReadPosteriorPrecision
    \/ StateDict(FALSE)
    \/ LoadStateDict(StateDicts, FALSE)

Spec == Init /\ [][Next]_vars

\* Every way of passing likelihood, observation noise and prior precision.
NextArgs ==
    \/ Construct(Parametric, LikelihoodInputs, SigmaInputs, PriorInputs, {"None"})
    \/ SetPriorPrecision(PriorInputs)
    \/ SetSigmaNoise(SigmaInputs)
    \/ LogMarginalLikelihood
    \/ ReadPriorPrecisionDiag

SpecArgs == Init /\ [][NextArgs]_vars

\* Predictions of the parametric variants, before and after a fit.
NextPredict ==
    \/ Construct(Parametric, Likelihoods, {Scalar(1)}, {Scalar(1)}, {"None"})
    \/ Fit({SavedStream})
    \/ FitLowRank({SavedStream})
    \/ Call

SpecPredict == Init /\ [][NextPredict]_vars

\* The cached posterior scale of the dense variant under every operation that
\* changes the posterior precision.
NextScale ==
    \/ Construct({"FullLaplace"}, {"regression", "classification"}, {Scalar(1)},
                 {Scalar(1)}, {"None"})
    \/ Fit({SavedStream, OtherStream})
    \/ Call
    \/ SetPriorPrecision({Scalar(1), Scalar(2)})
    \/ SetSigmaNoise({Scalar(1), Scalar(2)})
    \/ SetTemperature({1, 2})
    \/ LoadStateDict(StateDictsFull, FALSE)

SpecScale == Init /\ [][NextScale]_vars

\* The functional variant constructed without a subset size and fitted
\* repeatedly on loaders of different sizes.
NextRefit ==
    \/ ConstructGP({"regression", "classification"}, {Scalar(1)}, {Scalar(1)},
                   {"BackPackGGN"}, {"None"}, {None})
    \/ FitGP(KernelStreams)

SpecRefit == Init /\ [][NextRefit]_vars

\* A caller that keeps the dictionary it saved or loaded while the instance
\* is fitted again.
NextSnapshot ==
    \/ Construct({"FullLaplace", "DiagLaplace", "KronLaplace"}, {"regression"},
                 {Scalar(1)}, {Scalar(1)}, {"None"})
    \/ Fit({SavedStream, OtherStream})
    \/ StateDict(TRUE)
    \/ LoadStateDict(StateDictsSnapshot, TRUE)

SpecSnapshot == Init /\ [][NextSnapshot]_vars

\* The Kronecker variant: fits, updates, fits that fail, saving and loading.
NextKron ==
    \/ Construct({"KronLaplace"}, {"regression", "classification"}, {Scalar(1)},
                 {Scalar(1)}, {"None"})
    \/ Fit({SavedStream, OtherStream, EmptyStream})
    \/ LogMarginalLikelihood
    \/ StateDict(FALSE)
    \/ LoadStateDict(StateDictsKron, FALSE)

SpecKron == Init /\ [][NextKron]_vars

\* Function-space fits over loaders of every size and batch size.
NextKernel ==
    \/ ConstructGP({"regression"}, {Scalar(1)}, {Scalar(1)}, {"BackPackGGN"}, {"None"},
                   {None, 2, 3})
    \/ FitGP(KernelStreams)

SpecKernel == Init /\ [][NextKernel]_vars

\* The functional (GP) variant.
NextGP ==
    \/ ConstructGP({"regression", "classification"}, {Scalar(1)},
                   {Scalar(1), Tensor(1, <<2, 3>>)}, {"BackPackGGN", "CurvlinopsGGN"},
                   {"None", "kwargs"}, {None, 2})
    \/ FitGP(Streams)
    \/ CallGP
    \/ SetPriorPrecision({Scalar(2), Tensor(1, <<2, 3>>)})
    \/ StateDict(FALSE)
    \/ LoadStateDict(StateDictsGP, FALSE)

SpecGP == Init /\ [][NextGP]_vars

\* Saving and loading, for every variant.
NextLoad ==
    \/ Construct(Parametric, {"regression", "classification"}, {Scalar(1)}, {Scalar(1)},
                 {"None"})
    \/ ConstructGP({"regression", "classification"}, {Scalar(1)}, {Scalar(1)},
                   {"BackPackGGN"}, {"None"}, {None})
    \/ Fit({SavedStream})
    \/ FitLowRank({SavedStream})
    \/ StateDict(FALSE)
    \/ LoadStateDict(StateDictsAll, FALSE)

SpecLoad == Init /\ [][NextLoad]_vars

\* Choosing the prior precision of a fitted instance.
NextOptimize ==
    \/ Construct(Parametric, {"regression", "classification"}, {Scalar(1)}, {Scalar(1)},
                 {"None"})
    \/ Fit({SavedStream})
    \/ FitLowRank({SavedStream})
    \/ GridSearch

SpecOptimize == Init /\ [][NextOptimize]_vars

\* Evaluating and optimising the marginal likelihood.
NextMarglik ==
    \/ Construct(Parametric, {"regression", "classification"}, {Scalar(1)}, {Scalar(1)},
                 {"None"})
    \/ Fit({SavedStream})
    \/ FitLowRank({SavedStream})
    \/ OptimizeMarglik
    \/ LogMarginalLikelihood

SpecMarglik == Init /\ [][NextMarglik]_vars

(***************************************************************************)
(* Properties of fit                                                       *)
(***************************************************************************)
\* The accumulators of a fresh instance of class c on predictor m after one
\* fit with override=True on stream s.
single_fit(c, m, be, s) ==
    IF c = "KronLaplace"
    THEN kron_fit(m, be, [H |-> init_H(c, m), H_facs |-> NoneH, loss |-> 0,
                          n_data |-> 0], s, TRUE)
    ELSE [H_facs |-> NoneH]
         @@ parametric_fit(c, m, be, [H |-> init_H(c, m), loss |-> 0, n_data |-> 0],
                           s, TRUE)

\* C1: for the dense and the diagonal variant, a successful fit with
\* override=True on a stream followed by a successful fit with override=False on
\* a second stream leaves the H, loss and n_data of one override=True fit on the
\* concatenation of the two streams.
C1_UpdateIsFitOnConcatenation ==
    [][(/\ cls \in {"FullLaplace", "DiagLaplace"}
        /\ last.op = "fit" /\ last.err = OK /\ last.override
        /\ last'.op = "fit" /\ last'.err = OK /\ ~last'.override)
       => LET f == single_fit(cls, model, backend_cls, Concat(last.stream, last'.stream))
          IN  H' = f.H /\ loss' = f.loss /\ n_data' = f.n_data]_vars

\* An update of a dense or diagonal instance on top of one earlier fit.
C1_Witness ==
    /\ cls \in {"FullLaplace", "DiagLaplace"}
    /\ last.op = "fit" /\ last.err = OK /\ ~last.override
    /\ \E s1 \in Streams :
          LET f == single_fit(cls, model, backend_cls, Concat(s1, last.stream))
          IN  H = f.H /\ loss = f.loss /\ n_data = f.n_data /\ n_data > last.stream.N

\* C2: in every parametric variant a successful fit with override=True leaves
\* H, loss and n_data (and for Kron the summed factors H_facs) as a fresh
\* instance would have them after fitting that call's stream: nothing of
\* earlier fit or load_state_dict calls remains, and fitting the same stream again
\* gives the same result.
C2_OverrideDependsOnStreamOnly ==
    (/\ cls \in {"FullLaplace", "DiagLaplace", "KronLaplace"}
     /\ last.op = "fit" /\ last.err = OK /\ last.override)
    => LET f == single_fit(cls, model, backend_cls, last.stream)
       IN  H = f.H /\ H_facs = f.H_facs /\ loss = f.loss /\ n_data = f.n_data

\* The same for the low-rank variant, whose fit is a single eigendecomposition.
C2_OverrideLowRank ==
    (cls = "LowRankLaplace" /\ last.op = "fit" /\ last.err = OK /\ last.override)
    => /\ H = eig_lowrank(last.stream).H
       /\ loss = eig_lowrank(last.stream).loss
       /\ n_data = last.stream.N

\* C2: after a successful override=True fit of any variant (dense, diagonal,
\* Kronecker or low-rank) the accumulators depend on that call's stream only.
C2_Override == C2_OverrideDependsOnStreamOnly /\ C2_OverrideLowRank

\* An override=True fit on an instance that already held another stream's data.
C2_Witness ==
    /\ cls \in Parametric
    /\ last.op = "fit" /\ last.err = OK /\ last.override
    /\ phase = "fitted"
    /\ n_data = last.stream.N

\* The raw Kronecker factors the backend yields for stream s alone.
new_factors(m, s) ==
    accumulate("KronLaplace", m, [H |-> init_H("KronLaplace", m), loss |-> 0],
               s.batches, s.N).H.kfacs

\* A step that updates a Kron instance which already holds summed factors.
KronUpdateStep ==
    /\ cls = "KronLaplace"
    /\ H_facs # NoneH
    /\ last'.op = "fit" /\ last'.err = OK /\ ~last'.override

\* C3 as stated: after an update every factor of every parameter group is
\* n_old/(n_old+n_new) times the old factor plus n_new/(n_old+n_new) times the
\* new one.
C3_EveryFactorAveraged ==
    [][KronUpdateStep =>
        LET n_old == n_data
            n_new == last'.stream.N
            new == new_factors(model, last'.stream)
        IN  H_facs'.kfacs =
                [k \in DOMAIN H_facs.kfacs |->
                    [i \in DOMAIN H_facs.kfacs[k] |->
                        RatAdd(RatMul(H_facs.kfacs[k][i], Rat(n_old, n_old + n_new)),
                               RatMul(new[k][i], Rat(n_new, n_old + n_new)))]]]_vars

\* C3 (amended): after an update the second factor of every two-factor group
\* is n_old/(n_old+n_new) times the old one plus n_new/(n_old+n_new) times the
\* new one; the first factor of such a group and the only factor of a
\* one-factor group are the plain sums of the old and the new factor.
C3_SecondFactorAveraged ==
    [][KronUpdateStep =>
        LET n_old == n_data
            n_new == last'.stream.N
            new == new_factors(model, last'.stream)
        IN  /\ DOMAIN H_facs'.kfacs = DOMAIN H_facs.kfacs
            /\ \A k \in DOMAIN H_facs.kfacs :
                /\ Len(H_facs'.kfacs[k]) = Len(H_facs.kfacs[k])
                /\ H_facs'.kfacs[k][1] = RatAdd(H_facs.kfacs[k][1], new[k][1])
                /\ Len(H_facs.kfacs[k]) = 2 =>
                    H_facs'.kfacs[k][2] =
                        RatAdd(RatMul(H_facs.kfacs[k][2], Rat(n_old, n_old + n_new)),
                               RatMul(new[k][2], Rat(n_new, n_old + n_new)))
            /\ H' = kron_decompose(H_facs')
            /\ n_data' = n_old + n_new]_vars

\* A Kron instance after an update on top of earlier data, with a one-factor
\* and a two-factor group.
C3_Witness ==
    /\ cls = "KronLaplace"
    /\ last.op = "fit" /\ last.err = OK /\ ~last.override
    /\ n_data > last.stream.N
    /\ H_facs # NoneH
    /\ \E k \in DOMAIN H_facs.kfacs : Len(H_facs.kfacs[k]) = 1
    /\ \E k \in DOMAIN H_facs.kfacs :
          Len(H_facs.kfacs[k]) = 2 /\ H_facs.kfacs[k][2] # H_facs.kfacs[k][1]

\* C4: every fit of the low-rank variant with override=False fails with the
\* "does not support updating" error and leaves H, loss, n_data, mean and
\* n_outputs as they were.
C4_LowRankUpdateFails ==
    [][(cls = "LowRankLaplace" /\ last'.op = "fit" /\ ~last'.override)
       => /\ last'.err = ErrNoUpdate
          /\ UNCHANGED <<H, loss, n_data, mean, n_outputs>>]_vars

\* A fitted low-rank instance on which an update has just been refused.
C4_Witness ==
    /\ cls = "LowRankLaplace"
    /\ last.op = "fit" /\ ~last.override /\ last.err = ErrNoUpdate
    /\ phase = "fitted" /\ H # NoneH

(***************************************************************************)
(* Properties of unfitted instances and of the stored mean                 *)
(***************************************************************************)
\* C5 as stated: on a parametric instance that was constructed but never
\* fitted or loaded, reading posterior_precision and calling state_dict fail
\* with the not-fitted error.
C5_UnfittedReadFails ==
    (/\ cls \in Parametric
     /\ phase = "init"
     /\ last.op \in {"posterior_precision", "state_dict"})
    => last.err = ErrNotFitted

\* C6 as stated: after a successful fit the stored mean is the flattened
\* concatenation of the trainable parameters only, of length n_params.
C6_MeanIsTrainableParameters ==
    (cls \in Parametric /\ last.op = "fit" /\ last.err = OK)
    => (mean = T1(parameters_to_vector(params)) /\ Len(mean.v) = n_params)

(***************************************************************************)
(* Properties of the noise and prior precision arguments                   *)
(***************************************************************************)
\* C7 as stated: an instance whose likelihood is not regression has
\* sigma_noise = 1 in every reachable state, every way of setting another
\* value having failed.
C7_UnitNoiseUnlessRegression ==
    (constructed /\ likelihood # "regression") => sigma_noise = 1

\* The index, among the trainable parameter tensors of m, of the tensor that
\* holds entry i of the flattened parameter vector.
layer_of(m, i) ==
    CHOOSE k \in 1..n_layers_of(m) :
        LET before == SumSeq([j \in 1..(k - 1) |-> Len(params_of(m)[j].data)])
        IN  before < i /\ i <= before + Len(params_of(m)[k].data)

\* C8: in every reachable state prior_precision_diag is a vector of length
\* n_params: the scalar repeated n_params times, or each per-layer value
\* repeated over its layer's parameters in parameter order, or the
\* per-parameter vector itself, also when n_layers = n_params or n_params = 1.
C8_PriorPrecisionDiagIsBroadcast ==
    constructed =>
        /\ prior_precision_diag.err = OK
        /\ Len(prior_precision_diag.val) = n_params
        /\ Len(prior_precision) \in {1, n_layers, n_params}
        /\ Len(prior_precision) = 1 =>
              \A i \in 1..n_params : prior_precision_diag.val[i] = prior_precision[1]
        /\ Len(prior_precision) = n_layers =>
              \A i \in 1..n_params :
                  prior_precision_diag.val[i] = prior_precision[layer_of(model, i)]
        /\ Len(prior_precision) = n_params =>
              prior_precision_diag.val = prior_precision

\* A per-layer prior precision on a predictor with more parameters than
\* layers, just read through prior_precision_diag.
C8_Witness ==
    /\ constructed
    /\ last.op = "prior_precision_diag"
    /\ n_layers = 2 /\ n_params = 3
    /\ Len(prior_precision) = n_layers
    /\ prior_precision[1] # prior_precision[2]

\* The length of a prior precision argument, for the arguments that have one.
has_length(x) == x.kind = "tensor" /\ x.ndim = 1

\* C9: for the Kronecker variant a prior precision whose length is neither 1
\* nor n_layers is refused, at construction and through the setter.
C9_KronRefusesOtherLengths ==
    /\ (/\ last.op = "init" /\ last.cls = "KronLaplace"
        /\ has_length(last.prior_precision)
        /\ Len(last.prior_precision.v) \notin {1, n_layers_of(last.model)})
       => (last.err # OK /\ phase = "none")
    /\ (/\ last.op = "set_prior_precision" /\ cls = "KronLaplace"
        /\ has_length(last.x)
        /\ Len(last.x.v) \notin {1, n_layers})
       => last.err \in {ErrPriorKron, ErrPriorLen}

\* A per-parameter prior precision just refused by the setter of a Kron
\* instance whose predictor has more parameters than layers.
C9_Witness ==
    /\ cls = "KronLaplace"
    /\ last.op = "set_prior_precision"
    /\ has_length(last.x)
    /\ Len(last.x.v) = n_params /\ n_params # n_layers
    /\ last.err = ErrPriorKron

(***************************************************************************)
(* Properties of the functional variant                                    *)
(***************************************************************************)
\* A step in which the fitted flag of a FunctionalLaplace turns true.
BecomesFitted == gp.kind = "gp" /\ ~gp.fitted /\ gp'.fitted

C11_CallRebuildsSigmaInv ==
    [][(cls = "FunctionalLaplace" /\ last'.op = "call" /\ last'.err = OK)
       => /\ gp'.Sigma_inv = [state |-> "built", prior_precision |-> prior_precision,
                              sigma_noise |-> sigma_noise, K_MM |-> gp.K_MM]
          /\ gp' = [gp EXCEPT !.Sigma_inv = gp'.Sigma_inv]
          /\ UNCHANGED <<prior_precision, loss, n_data>>]_vars

\* A successful call that replaced a factor built with another prior precision:
\* the prior precision 2 was set after the factor had been built with 1.
C11_Witness ==
    /\ cls = "FunctionalLaplace"
    /\ last.op = "call" /\ last.err = OK /\ last.rebuilt
    /\ prior_precision = <<2>>
    /\ gp.Sigma_inv.state = "built" /\ gp.Sigma_inv.prior_precision = <<2>>

\* C12 as stated: in every reachable state of a FunctionalLaplace the prior
\* precision has exactly one element; a tensor with more elements is refused
\* at construction and by every later way of setting it.
C12_PriorPrecisionIsotropic ==
    /\ (cls = "FunctionalLaplace") => Len(prior_precision) = 1
    /\ (/\ last.op = "init" /\ last.cls = "FunctionalLaplace"
        /\ Len(last.prior_precision.v) > 1) => (last.err # OK /\ phase = "none")
    /\ (/\ cls = "FunctionalLaplace" /\ last.op = "set_prior_precision"
        /\ Len(last.x.v) > 1) => last.err # OK

(***************************************************************************)
(* Properties of the parametric predictive entry point                     *)
(***************************************************************************)
\* C13: a call of a parametric instance fails with the prediction-type error
\* when pred_type is neither glm nor nn, with the link error when link_approx
\* is not one of mc, probit, bridge, bridge_norm, and with the nn-link error
\* when pred_type is nn and link_approx is another known link than mc, for
\* every likelihood; in each case no field of the instance and nothing of the
\* predictor has changed when the error is raised.
C13_InvalidArgumentsFailFirst ==
    [][(cls \in Parametric /\ last'.op = "call")
       => /\ last'.pred_type \notin {"glm", "nn"} => last'.err = ErrPredType
          /\ (last'.pred_type \in {"glm", "nn"} /\ last'.link_approx \notin LinkApprox)
                => last'.err = ErrLink
          /\ (last'.pred_type = "nn" /\ last'.link_approx \in LinkApprox \ {"mc"})
                => last'.err = ErrNNLink
          /\ last'.err \in {ErrPredType, ErrLink, ErrNNLink}
                => UNCHANGED <<phase, cls, model, likelihood, reward_modeling,
                               prior_precision, prior_mean, sigma_noise, temperature,
                               enable_backprop, backend_cls, backend_kwargs, H, H_facs,
                               loss, n_data, n_outputs, mean, posterior_scale, gp>>]_vars

\* An nn call with the probit link refused on a fitted reward-modelling
\* instance, whose likelihood a call that passed the checks would have changed.
C13_Witness ==
    /\ cls \in Parametric /\ phase = "fitted"
    /\ last.op = "call" /\ last.err = ErrNNLink
    /\ last.pred_type = "nn" /\ last.link_approx = "probit"
    /\ reward_modeling /\ likelihood = "classification"
    /\ model.output_size = model.out

\* C14 as stated: after an nn predictive call has returned, the trainable
\* parameters of the predictor equal the mean of the approximation.
C14_NNCallRestoresMean ==
    (/\ cls \in Parametric
     /\ last.op = "call" /\ last.err = OK /\ last.pred_type = "nn")
    => parameters_to_vector(params) = mean.v

(***************************************************************************)
(* Properties of state_dict and load_state_dict                            *)
(***************************************************************************)
\* C15: load_state_dict fails with the wrong-type error when the saved class
\* name is not the class of the instance, with the parameter-count error when
\* the length of the saved mean (for FunctionalLaplace: of the saved
\* map_estimate) is not n_params, and with the likelihood error when the saved
\* likelihood is not the instance's; in each case every field of the instance
\* and the predictor are as before the call.
C15_LoadDealbreakers ==
    [][(constructed /\ last'.op = "load_state_dict")
       => LET sd == last'.state_dict
              wrong_type == cls # sd.cls_name
              wrong_params == sd.mean.ndim = 1 /\ Len(sd.mean.v) # n_params
              wrong_likelihood == likelihood # sd.likelihood
          IN  /\ wrong_type => last'.err = ErrWrongType
              /\ (~wrong_type /\ wrong_params) => last'.err = ErrWrongParams
              /\ (~wrong_type /\ ~wrong_params /\ wrong_likelihood)
                    => last'.err = ErrWrongLikelihood
              /\ (wrong_type \/ wrong_params \/ wrong_likelihood)
                    => UNCHANGED <<phase, cls, model, likelihood, reward_modeling,
                                   prior_precision, prior_mean, sigma_noise,
                                   temperature, enable_backprop, backend_cls,
                                   backend_kwargs, H, H_facs, loss, n_data, n_outputs,
                                   mean, posterior_scale, gp>>]_vars

\* A fitted instance that has just refused a dictionary of its own class and
\* parameter count but of another likelihood.
C15_Witness ==
    /\ phase = "fitted"
    /\ last.op = "load_state_dict" /\ last.err = ErrWrongLikelihood
    /\ last.state_dict.cls_name = cls
    /\ Len(last.state_dict.mean.v) = n_params
    /\ last.state_dict.likelihood # likelihood
    /\ n_data = SavedStream.N

saved_instance(c, m) ==
    IF c = "LowRankLaplace"
    THEN [H_facs |-> NoneH]
         @@ lowrank_fit(m, [H |-> NoneH, loss |-> 0, n_data |-> 0, mean |-> T0(0),
                           n_outputs |-> None], SavedStream, TRUE)
    ELSE [mean |-> fit_mean(m), n_outputs |-> m.out]
         @@ single_fit(c, m, default_backend(c), SavedStream)

\* C17 as stated: loading the dictionary saved by a fitted instance into a
\* freshly constructed instance of the same variant, likelihood and predictor
\* succeeds and gives the mean, the curvature H (for Kron: the raw factors and
\* the decomposition rebuilt from them), loss, n_data, n_outputs, prior mean,
\* prior precision, sigma_noise and temperature of the instance that saved it.
C17_RoundTrip ==
    [][(/\ cls \in Parametric /\ phase = "init"
        /\ last'.op = "load_state_dict"
        /\ last'.state_dict = fitted_dict(cls, model, likelihood))
       => LET saver == saved_instance(cls, model)
          IN  /\ last'.err = OK
              /\ mean' = saver.mean
              /\ H' = saver.H
              /\ H_facs' = saver.H_facs
              /\ loss' = saver.loss
              /\ n_data' = saver.n_data
              /\ n_outputs' = saver.n_outputs
              /\ prior_mean'.v = prior_mean.v
              /\ UNCHANGED <<prior_precision, sigma_noise, temperature>>]_vars

(***************************************************************************)
(* Properties of the prior precision optimisation                          *)
(***************************************************************************)
\* C18 as stated: a grid search that completes leaves the prior precision at
\* a grid point of smallest validation loss, and never at a grid point whose
\* evaluation raised a numerical error (scored as infinite loss).
C18_GridSearchSelectsMinimum ==
    (cls \in Parametric /\ last.op = "gridsearch" /\ last.err = OK)
    => \E k \in DOMAIN last.interval :
          /\ prior_precision = <<last.interval[k]>>
          /\ \A j \in DOMAIN last.interval : last.results[k] <= last.results[j]
          /\ last.results[k] # Inf

\* The number of elements the prior precision is given before the first step:
\* for an initial value of one element the length of the prior structure,
\* otherwise the length of the initial value.
fixed_length(init, prior_structure, m) ==
    IF Len(init.v) # 1 THEN Len(init.v)
    ELSE CASE prior_structure = "scalar" -> 1
           [] prior_structure = "layerwise" -> n_layers_of(m)
           [] prior_structure = "diag" -> n_params_of(m)
           [] OTHER -> 0

\* C19: in a marglik optimisation the prior precision held after every step
\* has the number of elements fixed before the first step (1 for scalar,
\* n_layers for layerwise, n_params for diag when the initial value has one
\* element; otherwise the length of the initial value), and an optimisation
\* that completes has evaluated the marginal likelihood exactly n_steps times
\* and leaves a prior precision of that length.
C19_MarglikKeepsStructure ==
    (cls \in Parametric /\ last.op = "optimize_marglik")
    => LET fixed == fixed_length(last.init, last.prior_structure, model)
       IN  /\ \A i \in DOMAIN last.lens : last.lens[i] = fixed
           /\ last.evals <= last.n_steps
           /\ last.err = OK =>
                /\ last.evals = last.n_steps
                /\ Len(last.lens) = last.n_steps
                /\ Len(prior_precision) = fixed

\* A completed optimisation of two or more steps that started from a scalar
\* with the layerwise structure, on a predictor with fewer layers than
\* parameters, and changed the prior precision.
C19_Witness ==
    /\ cls \in Parametric /\ phase = "fitted"
    /\ last.op = "optimize_marglik" /\ last.err = OK
    /\ last.init = Scalar(1) /\ last.prior_structure = "layerwise"
    /\ last.n_steps >= 2 /\ last.evals = last.n_steps
    /\ n_layers = 2 /\ n_params = 3
    /\ Len(prior_precision) = 2 /\ prior_precision # <<1, 1>>

\* C20: on a fitted parametric approximation, a log_marginal_likelihood call
\* that directly follows one with the same prior_precision and sigma_noise
\* arguments has the same outcome, returns the same value, and leaves
\* prior_precision, sigma_noise, H, loss and n_data as the first call left
\* them.
C20_MarglikIdempotent ==
    [][(/\ cls \in Parametric /\ phase = "fitted"
        /\ last.op = "log_marginal_likelihood"
        /\ last'.op = "log_marginal_likelihood"
        /\ last'.x = last.x /\ last'.sn = last.sn)
       => /\ last'.err = last.err
          /\ last'.value = last.value
          /\ prior_precision' = prior_precision
          /\ sigma_noise' = sigma_noise
          /\ H' = H /\ loss' = loss /\ n_data' = n_data]_vars

\* The second of two calls in a row that pass both a prior precision and a
\* noise to a fitted regression approximation, and return a value.
C20_Witness ==
    /\ cls \in Parametric /\ phase = "fitted" /\ likelihood = "regression"
    /\ last.op = "log_marginal_likelihood" /\ last.err = OK
    /\ last.repeated
    /\ last.x = Tensor(1, <<2, 3>>) /\ last.sn = Scalar(2)
    /\ prior_precision = <<2, 3>> /\ sigma_noise = 2
    /\ last.value # NoValue

C22_KronDecomposedSinceFirstFit ==
    (constructed /\ cls = "KronLaplace")
    => /\ (last.op \in {"fit", "load_state_dict"} /\ last.err = OK)
          => (H_facs # NoneH /\ H = kron_decompose(H_facs))
       /\ H.kind = "Kron" => phase = "init"

\* C23 as stated: for the function-space variant the dirty flag of the
\* Cholesky factor is clear after a fit that completed and after a predictive
\* call that completed, so that a predictive call that follows either of them
\* with no prior-precision change in between does not rebuild Sigma_inv.
C23_DirtyFlagCleared ==
    (constructed /\ cls = "FunctionalLaplace"
     /\ last.op \in {"fit", "call"} /\ last.err = OK)
    => ~gp.recompute_Sigma

\* C24 as stated: a function-space approximation constructed with backend
\* class B and backend arguments K records B as its backend class and K (an
\* empty dictionary when none are given) as its backend arguments.
C24_BackendRecorded ==
    (cls = "FunctionalLaplace" /\ last.op = "init" /\ last.err = OK)
    => /\ backend_cls = last.backend
       /\ backend_kwargs = IF last.backend_kwargs = "None" THEN "empty"
                           ELSE last.backend_kwargs

C26_KronRejectedPriorKept ==
    [][(/\ cls = "KronLaplace"
        /\ last'.op = "set_prior_precision"
        /\ last'.err \in {ErrPriorKron, ErrPriorLen})
       => prior_precision' = prior_precision]_vars

\* C27 as stated: log_marginal_likelihood called with both a prior_precision
\* and a sigma_noise argument on an approximation whose likelihood is not
\* regression fails and leaves the stored prior precision and sigma_noise
\* unchanged.
C27_FailedMarglikKeepsPrior ==
    [][(/\ constructed /\ likelihood # "regression"
        /\ last'.op = "log_marginal_likelihood"
        /\ last'.x # NonePy /\ last'.sn # NonePy)
       => /\ last'.err # OK
          /\ prior_precision' = prior_precision
          /\ sigma_noise' = sigma_noise]_vars

(***************************************************************************)
(* Saved dictionaries                                                      *)
(***************************************************************************)
\* C28 as stated: for the Dense, Diagonal and Kronecker variants, a fit with
\* override=False on the instance that returned a dictionary from state_dict()
\* (or on an instance that loaded the dictionary) does not change the
\* curvature and loss values the dictionary holds.
C28_StateDictIsSnapshot ==
    [][(/\ saved # NoSaved
        /\ cls \in {"FullLaplace", "DiagLaplace", "KronLaplace"}
        /\ last'.op = "fit" /\ ~last'.override)
       => /\ saved'.dict.H = saved.dict.H
          /\ saved'.dict.loss = saved.dict.loss]_vars

\* The part of C28 that holds: a fit with override=True leaves the dictionary
\* as it was.
C28x_OverrideKeepsDict ==
    [][(/\ saved # NoSaved /\ last'.op = "fit" /\ last'.override)
       => saved'.dict = saved.dict]_vars

\* A kept dictionary differs from what it held when it was handed out.
C28x_Changed ==
    /\ saved # NoSaved /\ saved.dict # saved.orig

\* The likelihood a freshly constructed instance holds when it is given the
\* likelihood argument this instance was given (BaseLaplace.__init__).
fresh_likelihood == IF reward_modeling THEN "classification" ELSE likelihood

\* The dictionary state_dict() returns in the current state.
current_dict ==
    state_dict(cls, mean, H, H_facs, loss, prior_mean, prior_precision, sigma_noise,
               n_data, n_outputs, likelihood, temperature, enable_backprop, gp)

\* C29 as stated: for every likelihood the constructor accepts
\* (classification, regression, reward_modeling), the dictionary that
\* state_dict() of a fitted instance returns after any sequence of predictive
\* calls passes the fatal checks of load_state_dict on a freshly constructed
\* instance of the same variant and arguments, and the likelihood it records
\* is the one the instance held before the calls.
C29_DictLoadableAfterPredict ==
    (/\ constructed /\ cls \in Parametric /\ phase = "fitted"
     /\ state_dict_err(cls, H, H_facs) = OK)
    => /\ current_dict.likelihood = fresh_likelihood
       /\ load_state_dict_err(cls, model, fresh_likelihood, current_dict) = OK

\* The part of C29 that holds: classification and regression, for the variants
\* whose fit keeps the mean at the n_params trainable parameters.
C29x_DictLoadableWithoutReward ==
    (/\ constructed /\ cls \in Parametric \ {"LowRankLaplace"}
     /\ phase = "fitted" /\ ~reward_modeling
     /\ state_dict_err(cls, H, H_facs) = OK)
    => /\ current_dict.likelihood = fresh_likelihood
       /\ load_state_dict_err(cls, model, fresh_likelihood, current_dict) = OK

\* A fitted instance of each plain likelihood after a predictive call.
C29x_Reached ==
    /\ phase = "fitted" /\ ~reward_modeling /\ last.op = "call" /\ last.err = OK
    /\ likelihood = "classification"

\* A fitted reward-modeling instance after a predictive call.
C29x_RewardFlipped ==
    /\ cls = "DiagLaplace" /\ phase = "fitted" /\ reward_modeling
    /\ last.op = "call" /\ likelihood = "regression"
    /\ load_state_dict_err(cls, model, fresh_likelihood, current_dict) = ErrWrongLikelihood

(***************************************************************************)
(* Refitting the functional variant                                        *)
(***************************************************************************)
\* FunctionalLaplace.fit on a freshly constructed instance with the arguments
\* of this one, n_subset=None: the fields fit reads are M and loss.
fresh_gp_fit(s, chol_ok) ==
    gp_fit(model, backend_cls, [gp EXCEPT !.M = None], 0, prior_precision,
           sigma_noise, s, chol_ok)

\* C30 as stated: for the functional variant, a second call of fit ends as a
\* single fit on the second loader does on a fresh instance, with the same
\* loss, n_data, M and kernel matrix.
C30_RefitEqualsFreshFit ==
    [][(/\ cls = "FunctionalLaplace" /\ gp.fitted /\ last'.op = "fit")
       => \E chol_ok \in BOOLEAN :
            LET f == fresh_gp_fit(last'.stream, chol_ok)
            IN  /\ last'.err = f.err
                /\ loss' = f.loss
                /\ n_data' = last'.stream.N
                /\ gp'.M = f.gp.M
                /\ gp'.K_MM = f.gp.K_MM]_vars

\* The part of C30 that holds: n_data is that of the second loader, and a
\* second fit on a loader whose size is the M the instance holds has the M and
\* the kernel matrix of a fresh fit.
C30x_RefitSameSize ==
    [][(/\ cls = "FunctionalLaplace" /\ gp.fitted /\ last'.op = "fit")
       => /\ n_data' = last'.stream.N
          /\ last'.stream.N = gp.M
             => \E chol_ok \in BOOLEAN :
                  LET f == fresh_gp_fit(last'.stream, chol_ok)
                  IN  /\ last'.err = f.err
                      /\ gp'.M = f.gp.M
                      /\ gp'.K_MM = f.gp.K_MM]_vars

\* A completed fit on a loader of three points that left M at two and the
\* loss at the sum of both fits.
C30x_CarriedOver ==
    /\ cls = "FunctionalLaplace" /\ last.op = "fit" /\ last.err = OK
    /\ last.stream.N = 3 /\ gp.M = 2 /\ loss = 2

====
